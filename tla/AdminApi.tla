------------------------------ MODULE AdminApi ------------------------------
(***************************************************************************)
(* The admin API: httpv1/http.go, grpc.go and the router over the Quene    *)
(* interface, with the queue's own validation (types.go, Push, Edit,       *)
(* Active, ... of riverquene.go).                                          *)
(*                                                                         *)
(* A request is decoded by its transport into a call of the queue, the     *)
(* queue answers with one of its sentinel errors, and the transport maps   *)
(* the error to a status.  Of the store only the groups and definitions    *)
(* matter.  A call is one step (AdminTx takes the calls apart), but for    *)
(* Push, whose SELECT of the group and INSERT of the job other calls can   *)
(* come between.  A call whose storage fails may still have been           *)
(* committed.                                                              *)
(*                                                                         *)
(* A request_url is a sequence of tokens: the prefixes "HTTP@" and         *)
(* "GRPC@", a blank, and pieces of targets.  The memo is stored unread and  *)
(* left out.                                                               *)
(***************************************************************************)
EXTENDS Integers, Sequences, FiniteSets

CONSTANTS
    ValidNames,  \* group names and job ids that ValidateName accepts
    OtherNames,  \* names it refuses: empty, illegal characters, too long
    Urls,        \* request_urls of REST clients
    Targets,     \* delivery targets of gRPC clients
    Uid,         \* an id GenerateUID returns
    NoJob

Empty == ""      \* the zero value of Go's strings

ASSUME NamesAssumption ==
    /\ Empty \in OtherNames /\ OtherNames \cap ValidNames = {} /\ Uid \in ValidNames
    /\ ValidNames \cup OtherNames \subseteq STRING
    /\ IsFiniteSet(ValidNames)      \* their length is bounded
ASSUME UrlsAssumption == Urls \cup Targets \subseteq Seq(STRING)

\* The strings of the program (some of them by name, for the provers).
Text == STRING \cup {Empty, "a", "n", "m", "p", "x", "@once", "@daily", "junk", "none", "fields",
                     "HTTP@", "GRPC@", "OTHER@"}
               \cup {"RegisterGroup", "RemoveGroup", "Push", "Edit", "Delete", "Pause", "Active",
                     "List", "DeleteJobs", "Stats", "History", "GroupInfo", "QueryGroups"}

\* A row of gua_jobs.
Def == [group : Text, name : Text, url : Seq(Text), payload : Text,
        exectime : Int, pattern : Text, timeout : Int, active : BOOLEAN]

ASSUME NoJobAssumption == NoJob \notin Def

VARIABLES
    db,          \* the tables: [groups, jobs]
    looked       \* the groups that Pushes in progress have found

vars == <<db, looked>>

Now == 9         \* time.Now() of a request
JobNames == {"n", "m", Empty}
ExecTimes == {-1, 0}   \* given times are stored as they are
Deliveries == {"HTTP", "GRPC", "OTHER"}
Errs == {"nil", "invalid", "notfound", "duplicate", "internal"}
StorageFaults == {"none", "failed", "unknown"}

-----------------------------------------------------------------------------
(* types.go: validation *)

Prefixes == {"HTTP@", "GRPC@"}

\* UrlRe.
SplitsRequestURL(u) ==
    /\ Len(u) > 1 /\ u[1] \in Prefixes
    /\ \A i \in 2..Len(u) : u[i] # " "

ValidateName(s) == s \in ValidNames
IsOnce(p) == p \in {Empty, "@once"}
Parses(p) == p = "@daily"     \* Parse, see CronParser

\* Mutant: a pattern is first read when the job is scheduled again.
ValidatePatternLater(p) == p \in STRING

ValidatePattern(p) == IsOnce(p) \/ Parses(p)

-----------------------------------------------------------------------------
(* riverquene.go: what a call answers and does to the tables, when storage    *)
(* works.  A call that answers only an error has the value {}.                *)

Refused(tab, err) == [err |-> err, val |-> {}, db |-> tab]
Done(val, new) == [err |-> "nil", val |-> val, db |-> new]
SetJob(tab, j, def) == [tab EXCEPT !.jobs[j] = def]
Owns(tab, g, j) == j \in ValidNames /\ tab.jobs[j] # NoJob /\ tab.jobs[j].group = g
Time(t) == IF t = 0 THEN Now ELSE t

RegisterGroup(tab, c) ==
    IF ~ValidateName(c.g) THEN Refused(tab, "invalid")
    ELSE IF c.g \in tab.groups THEN Refused(tab, "duplicate")
    ELSE Done({}, [tab EXCEPT !.groups = @ \cup {c.g}])

RemoveGroup(tab, c) ==
    IF c.g \notin tab.groups THEN Refused(tab, "notfound")
    ELSE Done({}, [groups |-> tab.groups \ {c.g},
                   jobs |-> [j \in ValidNames |-> IF Owns(tab, c.g, j) THEN NoJob ELSE tab.jobs[j]]])

ValidJob(c) ==
    /\ ValidateName(c.g) /\ ValidateName(c.j) /\ c.name # Empty
    /\ SplitsRequestURL(c.url) /\ ValidatePattern(c.pattern)
    /\ ~(c.exectime < 0) /\ ~(c.timeout < 0)

InsertJob(tab, c) ==
    IF tab.jobs[c.j] # NoJob THEN Refused(tab, "duplicate")
    ELSE Done({}, SetJob(tab, c.j,
        [group |-> c.g, name |-> c.name, url |-> c.url, payload |-> c.payload,
         exectime |-> Time(c.exectime),
         pattern |-> IF c.pattern = Empty THEN "@once" ELSE c.pattern,
         timeout |-> c.timeout, active |-> TRUE]))

\* A Push that nothing comes between.
Push(tab, c) ==
    IF ~ValidJob(c) THEN Refused(tab, "invalid")
    ELSE IF c.g \notin tab.groups THEN Refused(tab, "notfound")
    ELSE InsertJob(tab, c)

Edit(tab, c) ==
    IF ~SplitsRequestURL(c.url) THEN Refused(tab, "invalid")
    ELSE IF ~Owns(tab, c.g, c.j) THEN Refused(tab, "notfound")
    ELSE Done({}, SetJob(tab, c.j, [tab.jobs[c.j] EXCEPT !.url = c.url, !.payload = c.payload]))

Active(tab, c) ==
    IF c.exectime < 0 THEN Refused(tab, "invalid")
    ELSE IF ~Owns(tab, c.g, c.j) THEN Refused(tab, "notfound")
    ELSE Done({}, SetJob(tab, c.j,
                    [tab.jobs[c.j] EXCEPT !.active = TRUE, !.exectime = Time(c.exectime)]))

\* Mutant: only what is not paused yet is updated.
PauseActive(tab, c) ==
    IF ~Owns(tab, c.g, c.j) \/ ~tab.jobs[c.j].active THEN Refused(tab, "notfound")
    ELSE Done({}, SetJob(tab, c.j, [tab.jobs[c.j] EXCEPT !.active = FALSE]))

Pause(tab, c) ==
    IF ~Owns(tab, c.g, c.j) THEN Refused(tab, "notfound")
    ELSE Done({}, SetJob(tab, c.j, [tab.jobs[c.j] EXCEPT !.active = FALSE]))

Delete(tab, c) ==
    IF ~Owns(tab, c.g, c.j) THEN Refused(tab, "notfound")
    ELSE Done({}, SetJob(tab, c.j, NoJob))

DeleteJobs(tab, c) ==
    LET del == {j \in ValidNames : Owns(tab, c.g, j) /\ c.name \in {Empty, tab.jobs[j].name}} IN
    Done(Cardinality(del),
         [tab EXCEPT !.jobs = [j \in ValidNames |-> IF j \in del THEN NoJob ELSE @[j]]])

\* Mutant: the rows are joined with the groups.
ListKnown(tab, g) ==
    {[id |-> j, job |-> tab.jobs[j]] : j \in {k \in ValidNames : g \in tab.groups /\ Owns(tab, g, k)}}

List(tab, g) == {[id |-> j, job |-> tab.jobs[j]] : j \in {k \in ValidNames : Owns(tab, g, k)}}

\* The calls that only read.  History's limit is 100 outside 1..1000.
Read(tab, c) ==
    CASE c.op = "List" -> Done(List(tab, c.g), tab)
      [] c.op = "GroupInfo" ->
            IF c.g \in tab.groups THEN Done(c.g, tab) ELSE Refused(tab, "notfound")
      [] c.op = "QueryGroups" -> Done(tab.groups, tab)
      [] c.op = "History" -> Done(IF c.limit \in 1..1000 THEN c.limit ELSE 100, tab)
      [] c.op = "Stats" ->
            LET jobs == {j \in ValidNames : tab.jobs[j] # NoJob}
                active == {j \in jobs : tab.jobs[j].active} IN
            Done([active |-> Cardinality(active), paused |-> Cardinality(jobs \ active)], tab)

Quene(tab, c) ==
    CASE c.op = "RegisterGroup" -> RegisterGroup(tab, c)
      [] c.op = "RemoveGroup" -> RemoveGroup(tab, c)
      [] c.op = "Push" -> Push(tab, c)
      [] c.op = "Edit" -> Edit(tab, c)
      [] c.op = "Active" -> Active(tab, c)
      [] c.op = "Pause" -> Pause(tab, c)
      [] c.op = "Delete" -> Delete(tab, c)
      [] c.op = "DeleteJobs" -> DeleteJobs(tab, c)
      [] OTHER -> Read(tab, c)

\* Arguments are checked first.  Then any statement can fail, and a COMMIT that
\* took effect can answer an error.
Call(tab, c, fault) ==
    IF fault = "none" \/ Quene(tab, c).err = "invalid" THEN Quene(tab, c)
    ELSE IF fault = "failed" THEN Refused(tab, "internal")
    ELSE Refused(Quene(tab, c).db, "internal")

NoCall == [op |-> "none", g |-> Empty, j |-> Empty, name |-> Empty, url |-> <<>>, payload |-> Empty,
           pattern |-> Empty, exectime |-> 0, timeout |-> 0, limit |-> 0]

-----------------------------------------------------------------------------
(* httpv1: the REST transport *)

\* A request: the route it matches, the names in its path, its body and the
\* fields of the JSON in it, its query.
NoFields == [NoCall EXCEPT !.op = "fields"]

Status(err) ==
    CASE err = "nil" -> 200
      [] err = "invalid" -> 400
      [] err = "notfound" -> 404
      [] err = "duplicate" -> 409
      [] OTHER -> 500

\* buildRouter: the routes, and whether their handlers read a body.
Routes == [post_groups |-> TRUE, get_groups |-> FALSE, get_group |-> FALSE,
           delete_group |-> FALSE, post_jobs |-> TRUE, get_jobs |-> FALSE,
           delete_jobs |-> FALSE, patch_job |-> TRUE, delete_job |-> FALSE,
           post_pause |-> FALSE, post_activate |-> TRUE, get_history |-> FALSE,
           get_status |-> FALSE]

\* readJSON: the status it refuses the body with, and the fields it decodes.
BodyStatus(r) ==
    IF Routes[r.route] /\ r.body = "toobig" THEN 413
    ELSE IF Routes[r.route] /\ r.body = "malformed" THEN 400 ELSE 200

Decoded(r) == IF r.body = "json" THEN r.fields ELSE NoFields

\* The handlers of groups.
RestGroupCall(r) ==
    CASE r.route = "post_groups" -> [NoCall EXCEPT !.op = "RegisterGroup", !.g = Decoded(r).g]
      [] r.route = "delete_group" -> [NoCall EXCEPT !.op = "RemoveGroup", !.g = r.group]

\* AddJob, EditJob, DeleteJob, DeleteJobs, PauseJob, ActiveJob.
RestJobCall(r) ==
    LET p == Decoded(r) IN
    CASE r.route = "post_jobs" ->
            [p EXCEPT !.op = "Push", !.g = r.group, !.j = IF p.j = Empty THEN Uid ELSE p.j]
      [] r.route = "patch_job" ->
            [NoCall EXCEPT !.op = "Edit", !.g = r.group, !.j = r.job, !.url = p.url,
                           !.payload = p.payload]
      [] r.route = "delete_job" -> [NoCall EXCEPT !.op = "Delete", !.g = r.group, !.j = r.job]
      [] r.route = "delete_jobs" -> [NoCall EXCEPT !.op = "DeleteJobs", !.g = r.group, !.name = r.query]
      [] r.route = "post_pause" -> [NoCall EXCEPT !.op = "Pause", !.g = r.group, !.j = r.job]
      [] r.route = "post_activate" ->
            [NoCall EXCEPT !.op = "Active", !.g = r.group, !.j = r.job, !.exectime = p.exectime]

\* Status, History, GroupInfo, GetGroupList, GetJobList.
RestReadCall(r) ==
    CASE r.route = "get_status" -> [NoCall EXCEPT !.op = "Stats"]
      [] r.route = "get_history" ->
            [NoCall EXCEPT !.op = "History", !.g = r.group,
                           !.limit = IF r.query = Empty THEN 100 ELSE 7]
      [] r.route = "get_group" -> [NoCall EXCEPT !.op = "GroupInfo", !.g = r.group]
      [] r.route = "get_groups" -> [NoCall EXCEPT !.op = "QueryGroups"]
      [] r.route = "get_jobs" -> [NoCall EXCEPT !.op = "List", !.g = r.group]

RestCall(r) ==
    IF r.route \in {"post_groups", "delete_group"} THEN RestGroupCall(r)
    ELSE IF r.route \in {"get_status", "get_history", "get_group", "get_groups", "get_jobs"}
    THEN RestReadCall(r) ELSE RestJobCall(r)

\* What a handler answers by itself: a body it cannot read, a PATCH without
\* request_url, a limit that is no integer.
RestStatus(r) ==
    IF BodyStatus(r) # 200 THEN BodyStatus(r)
    ELSE IF \/ r.route = "patch_job" /\ Decoded(r).url = <<>>
            \/ r.route = "get_history" /\ r.query = "m" THEN 400
    ELSE 200

\* What a handler writes: the name or id it was given, what the queue returned,
\* or "ok".
RestValue(r, c, val) ==
    CASE r.route = "post_groups" -> c.g
      [] r.route \in {"post_jobs", "patch_job"} -> c.j
      [] r.route \in {"delete_group", "delete_job", "post_pause", "post_activate"} -> "ok"
      [] OTHER -> val

Rest(tab, r, fault) ==
    IF RestStatus(r) # 200 THEN [status |-> RestStatus(r), val |-> {}, db |-> tab]
    ELSE LET c == RestCall(r)
             a == Call(tab, c, fault) IN
         [status |-> Status(a.err), db |-> a.db,
          val |-> IF a.err = "nil" THEN RestValue(r, c, a.val) ELSE {}]

-----------------------------------------------------------------------------
(* grpc.go: the gRPC transport *)

Code(err) ==
    CASE err = "nil" -> "OK"
      [] err = "invalid" -> "INVALID_ARGUMENT"
      [] err = "notfound" -> "NOT_FOUND"
      [] err = "duplicate" -> "ALREADY_EXISTS"
      [] OTHER -> "INTERNAL"

\* Mutant: an unknown delivery type counts as HTTP.
BuildRequestURLDefaulting(d, target) ==
    IF target = <<>> THEN <<>> ELSE <<IF d = "GRPC" THEN "GRPC@" ELSE "HTTP@">> \o target

\* <<>> stands for ErrInvalid.
BuildRequestURL(d, target) ==
    IF d \notin {"HTTP", "GRPC"} \/ target = <<>> THEN <<>>
    ELSE <<IF d = "GRPC" THEN "GRPC@" ELSE "HTTP@">> \o target

\* Mutant: the prefix test looks anywhere in the string.
ParseRequestURLAnywhere(u) ==
    IF \E i \in 1..Len(u) : u[i] = "GRPC@"
    THEN [delivery |-> "GRPC", target |-> SelectSeq(u, LAMBDA x : x # "GRPC@")]
    ELSE [delivery |-> "HTTP", target |-> SelectSeq(u, LAMBDA x : x # "HTTP@")]

ParseRequestURL(u) ==
    IF u # <<>> /\ Head(u) = "GRPC@" THEN [delivery |-> "GRPC", target |-> Tail(u)]
    ELSE [delivery |-> "HTTP", target |-> IF u # <<>> /\ Head(u) = "HTTP@" THEN Tail(u) ELSE u]

\* A request is a call, with a delivery type and a target for its url, and its
\* size: whether it would fit into a REST body.
GrpcCall(q) ==
    LET url == BuildRequestURL(q.delivery, q.target) IN
    [q.call EXCEPT
        !.url = IF q.call.op \in {"Push", "Edit"} THEN url ELSE <<>>,
        !.j = IF q.call.op = "Push" /\ @ = Empty THEN Uid ELSE @]

\* A row of ListJobs: JobInfo has no timeout.
JobInfo(row) ==
    LET shown == ParseRequestURL(row.job.url) IN
    [id |-> row.id, group |-> row.job.group, name |-> row.job.name, payload |-> row.job.payload,
     exectime |-> row.job.exectime, pattern |-> row.job.pattern, active |-> row.job.active,
     delivery |-> shown.delivery, target |-> shown.target]

\* What a method answers: the job id, the rows or an empty message.
GrpcValue(c, val) ==
    CASE c.op = "Push" -> c.j
      [] c.op = "List" -> {JobInfo(row) : row \in val}
      [] OTHER -> {}

Grpc(tab, q, fault) ==
    IF q.call.op \in {"Push", "Edit"} /\ BuildRequestURL(q.delivery, q.target) = <<>>
    THEN [code |-> Code("invalid"), val |-> {}, db |-> tab]
    ELSE LET c == GrpcCall(q)
             a == Call(tab, c, fault) IN
         [code |-> Code(a.err), db |-> a.db,
          val |-> IF a.err = "nil" THEN GrpcValue(c, a.val) ELSE {}]

-----------------------------------------------------------------------------
(* The requests *)

Names == ValidNames \cup OtherNames
PathNames == Names \ {Empty}     \* a {wildcard} of ServeMux matches a nonempty segment
Bodies == {"json", "empty", "malformed", "toobig"}
Sizes == {"fits", "over"}        \* over 1 MiB: not too big for the gRPC server

\* The bodies of AddJob: two good ones, and those that differ from one of them in
\* one field.
GoodJob == [NoFields EXCEPT !.j = "a", !.name = "n", !.url = <<"GRPC@", "GRPC@", "x">>, !.payload = "p"]
DailyJob == [GoodJob EXCEPT !.name = "m", !.pattern = "@daily", !.payload = Empty, !.timeout = 5]
AddFields ==
    {[GoodJob EXCEPT !.j = j] : j \in Names}
    \cup {DailyJob}
    \cup {[GoodJob EXCEPT !.url = u] : u \in Urls}
    \cup {[GoodJob EXCEPT !.exectime = e] : e \in ExecTimes}
    \cup {[GoodJob EXCEPT !.name = Empty], [GoodJob EXCEPT !.pattern = "@once"],
          [GoodJob EXCEPT !.pattern = "junk"], [GoodJob EXCEPT !.timeout = -1]}

GroupBody(g) == [NoFields EXCEPT !.g = g]
PatchBody(u) == [NoFields EXCEPT !.url = u, !.payload = "p"]
ActivateBody(e) == [NoFields EXCEPT !.exectime = e]

Fields(route) ==
    CASE route = "post_jobs" -> AddFields
      [] route = "post_groups" -> {GroupBody(g) : g \in Names}
      [] route = "patch_job" -> {PatchBody(u) : u \in Urls}
      [] route = "post_activate" -> {ActivateBody(e) : e \in ExecTimes}
      [] OTHER -> {NoFields}

Request(route, g, j, body, fields, query) ==
    [route |-> route, group |-> g, job |-> j, body |-> body, fields |-> fields, query |-> query]

RestRequests == [route \in DOMAIN Routes |->
    LET jobs == IF route \in {"patch_job", "delete_job", "post_pause", "post_activate"} THEN PathNames ELSE {"a"}
        queries == IF route \in {"delete_jobs", "get_history"} THEN JobNames ELSE {Empty} IN
    {Request(route, g, j, "json", f, x) :
        g \in PathNames, j \in jobs, f \in Fields(route), x \in queries}
    \cup {Request(route, g, j, body, NoFields, Empty) : g \in PathNames, j \in jobs, body \in Bodies}]

GrpcOps == {"RegisterGroup", "RemoveGroup", "Push", "Edit", "Delete", "Pause", "Active", "List"}

\* The messages of AddJob, ActiveJob, EditJob and the others.
AddMessage(f, g) == [f EXCEPT !.op = "Push", !.g = g, !.url = <<>>]
ActiveMessage(g, j, e) == [NoCall EXCEPT !.op = "Active", !.g = g, !.j = j, !.exectime = e]
EditMessage(g, j, p) == [NoCall EXCEPT !.op = "Edit", !.g = g, !.j = j, !.payload = p]
NameMessage(op, g, j) == [NoCall EXCEPT !.op = op, !.g = g, !.j = j]

Message(c, d, t, size) == [call |-> c, delivery |-> d, target |-> t, size |-> size]
Plain(c) == Message(c, "HTTP", <<>>, "fits")

AddMessages ==
    {Message(AddMessage(f, g), "GRPC", <<"GRPC@", "x">>, "fits") : f \in AddFields, g \in Names}
    \cup {Message(AddMessage(GoodJob, g), d, t, z) :
             g \in Names, d \in Deliveries, t \in Targets, z \in Sizes}

GrpcRequests == [op \in GrpcOps |->
    CASE op = "Push" -> AddMessages
      [] op = "Edit" -> {Message(EditMessage(g, j, "p"), d, t, z) :
                            g \in Names, j \in Names, d \in Deliveries, t \in Targets, z \in Sizes}
      [] op = "Active" -> {Plain(ActiveMessage(g, j, e)) : g \in Names, j \in Names, e \in ExecTimes}
      [] OTHER -> {Plain(NameMessage(op, g, j)) : g \in Names, j \in Names}]

-----------------------------------------------------------------------------
(* The steps *)

Init ==
    /\ db = [groups |-> {}, jobs |-> [j \in ValidNames |-> NoJob]]
    /\ looked = {}

RestStep(route) ==
    /\ \E r \in RestRequests[route], f \in StorageFaults : db' = Rest(db, r, f).db
    /\ UNCHANGED looked

GrpcStep(op) ==
    /\ \E q \in GrpcRequests[op], f \in StorageFaults : db' = Grpc(db, q, f).db
    /\ UNCHANGED looked

\* Push, when other calls come between its SELECT and its INSERT.
Look(g) ==
    /\ g \in db.groups
    /\ looked' = looked \cup {g}
    /\ UNCHANGED db

PushCalls ==
    {RestCall(r) : r \in RestRequests["post_jobs"]} \cup {GrpcCall(q) : q \in GrpcRequests["Push"]}

LatePush ==
    /\ \E c \in PushCalls : c.g \in looked /\ ValidJob(c) /\ db' = InsertJob(db, c).db
    /\ UNCHANGED looked

\* The last of them in the group has ended.
LookEnds(g) ==
    /\ g \in looked
    /\ looked' = looked \ {g}
    /\ UNCHANGED db

Next ==
    \/ \E route \in DOMAIN Routes : RestStep(route)
    \/ \E op \in GrpcOps : GrpcStep(op)
    \/ \E g \in ValidNames : Look(g) \/ LookEnds(g)
    \/ LatePush

Spec == Init /\ [][Next]_vars

-----------------------------------------------------------------------------
(* Properties *)

\* The route that serves a gRPC method's operation, and the REST request that
\* asks for what q asks for.
RouteOf == [RegisterGroup |-> "post_groups", RemoveGroup |-> "delete_group", Push |-> "post_jobs",
            Edit |-> "patch_job", Delete |-> "delete_job", Pause |-> "post_pause",
            Active |-> "post_activate", List |-> "get_jobs"]

Prefix(d) == CASE d = "HTTP" -> "HTTP@" [] d = "GRPC" -> "GRPC@" [] OTHER -> "OTHER@"

Mirror(q) ==
    Request(RouteOf[q.call.op], q.call.g, q.call.j, IF q.size = "fits" THEN "json" ELSE "toobig",
            [q.call EXCEPT !.op = "fields", !.url = <<Prefix(q.delivery)>> \o q.target], Empty)

\* ServeMux has no route for an empty name in the path.
Routable(r) ==
    /\ r.group # Empty \/ r.route = "post_groups"
    /\ r.job # Empty \/ r.route \in {"post_groups", "post_jobs"}

Told == {"group", "name", "payload", "exectime", "pattern", "active"}

\* A row of ListJobs and a row of REST's list are the same job.
SameJob(info, row) ==
    /\ info.id = row.id /\ \A f \in Told : info[f] = row.job[f]
    /\ BuildRequestURL(info.delivery, info.target) = row.job.url

\* Whichever transport an admin uses, the same request has the same effect, the
\* same error, the same id for a job that was added and the same jobs in the list
\* (with the address taken apart), also when storage fails: grpc.go:15 calls the
\* gRPC API a mirror of the REST one, and its handlers check and convert on their
\* own.  It is no mirror in two things: ListJobs does not show the timeout, and
\* REST answers 413 to a body that the gRPC server takes.
TransportsAgree ==
    \A op \in GrpcOps : \A q \in GrpcRequests[op], f \in StorageFaults :
        LET a == Rest(db, Mirror(q), f)
            b == Grpc(db, q, f) IN
        Routable(Mirror(q)) =>
            IF q.size = "over" THEN a.status = 413 /\ a.db = db
            ELSE /\ a.db = b.db
                 /\ \E e \in Errs : a.status = Status(e) /\ b.code = Code(e)
                 /\ op = "Push" /\ b.code = "OK" => a.val = b.val
                 /\ op = "List" /\ b.code = "OK" =>
                        /\ \A row \in a.val : \E info \in b.val : SameJob(info, row)
                        /\ \A info \in b.val : \E row \in a.val : SameJob(info, row)

Ask(route, g, j) == Request(route, g, j, "json", NoFields, Empty)
RestList(g) == Rest(db, Ask("get_jobs", g, Empty), "none").val
GrpcList(g) == Grpc(db, Plain(NameMessage("List", g, Empty)), "none").val

\* Every stored definition is one the worker can deliver and schedule again,
\* whichever calls wrote it: its url splits (deliver, riverquene.go:323), its
\* pattern is @once or parses (Work, riverquene.go:280).
StoredIsDeliverable ==
    \A j \in ValidNames : db.jobs[j] # NoJob =>
        LET d == db.jobs[j] IN
        /\ SplitsRequestURL(d.url)
        /\ d.pattern # Empty /\ (IsOnce(d.pattern) \/ Parses(d.pattern))
        /\ d.name # Empty /\ d.timeout >= 0 /\ d.exectime > 0 /\ ValidateName(d.group)

\* Writing back by EditJob what gRPC's ListJobs showed changes nothing: the
\* listed delivery and target name the stored url (grpc.go:40-61).
ListRoundTrip ==
    \A g \in ValidNames : \A info \in GrpcList(g) :
        Grpc(db, Message(EditMessage(g, info.id, info.payload), info.delivery, info.target, "fits"),
             "none") = [code |-> "OK", val |-> {}, db |-> db]

\* What /v1/status counts can be reached: the counted jobs are those that the lists
\* of all names show, of names whose group is gone too (a Push that had found the
\* group before RemoveGroup leaves such a job), and each can be paused and deleted
\* under the name that lists it (riverquene.go:605-680).
NothingOutOfReach ==
    LET stats == Rest(db, Ask("get_status", Empty, Empty), "none").val
        listed == UNION {{row.id : row \in RestList(g)} : g \in ValidNames} IN
    /\ stats.active + stats.paused = Cardinality(listed)
    /\ \A g \in ValidNames : \A row \in RestList(g) : \A route \in {"post_pause", "delete_job"} :
          Rest(db, Ask(route, g, row.id), "none").status = 200

\* The status that tells a client who repeats a request that it had taken effect.
Repeated(route) ==
    CASE route \in {"post_groups", "post_jobs"} -> 409
      [] route \in {"delete_group", "delete_job"} -> 404
      [] OTHER -> 200

Accepted(r) ==
    /\ Rest(db, r, "none").status = 200
    /\ r.route = "post_jobs" => Decoded(r).j # Empty

\* A COMMIT took effect and answered an error (riverquene.go:552 and the others),
\* so the client got a 500 and sends the request again: it has no second effect,
\* and its status tells.  AddJob without an id is no such request: GenerateUID
\* gives it another id each time.
RepeatTells ==
    \A route \in DOMAIN Routes : \A r \in RestRequests[route] :
        LET first == Rest(db, r, "unknown")
            again == Rest(first.db, r, "none") IN
        Accepted(r) => again.db = first.db /\ again.status = Repeated(route)
=============================================================================
