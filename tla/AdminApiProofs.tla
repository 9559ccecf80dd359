--------------------------- MODULE AdminApiProofs ---------------------------
(***************************************************************************)
(* Proofs about AdminApi: the two transports answer and do the same, what  *)
(* calls leave in the tables can be delivered, listed, written back and    *)
(* counted, and a request that is sent again has no second effect, for     *)
(* every set of names, urls and targets.                                   *)
(***************************************************************************)
EXTENDS AdminApi, FiniteSetTheorems, TLAPS

-----------------------------------------------------------------------------
(* The inductive invariant *)

\* What the worker needs of a definition.
Deliverable(d) ==
    /\ SplitsRequestURL(d.url)
    /\ d.pattern # Empty /\ (IsOnce(d.pattern) \/ Parses(d.pattern))
    /\ d.name # Empty /\ d.timeout >= 0 /\ d.exectime > 0 /\ ValidateName(d.group)

\* Tables whose definitions can be delivered.  A definition can outlive its group.
TablesOK(x) ==
    /\ x \in [groups : SUBSET ValidNames, jobs : [ValidNames -> Def \cup {NoJob}]]
    /\ \A j \in ValidNames : x.jobs[j] # NoJob => Deliverable(x.jobs[j])

ApiInv == TablesOK(db)

\* Any call of the queue.
Calls == [op : Text, g : Text, j : Text, name : Text, url : Seq(Text), payload : Text,
          pattern : Text, exectime : Int, timeout : Int, limit : Int]

-----------------------------------------------------------------------------
(* Calls of the queue *)

\* A write of one definition keeps the tables in order if the definition is.
LEMMA SetJobKeeps ==
    ASSUME ApiInv, NEW j \in ValidNames, NEW d \in Def \cup {NoJob},
           d # NoJob => Deliverable(d)
    PROVE  TablesOK(SetJob(db, j, d))
<1>1. SetJob(db, j, d).groups = db.groups /\ SetJob(db, j, d).jobs = [db.jobs EXCEPT ![j] = d]
  BY DEF ApiInv, TablesOK, SetJob
<1>2. SetJob(db, j, d) = [groups |-> db.groups, jobs |-> [db.jobs EXCEPT ![j] = d]]
  BY DEF ApiInv, TablesOK, SetJob
<1> DEFINE new == [db.jobs EXCEPT ![j] = d]
<1>3. /\ new \in [ValidNames -> Def \cup {NoJob}]
      /\ \A k \in ValidNames : new[k] = IF k = j THEN d ELSE db.jobs[k]
  BY DEF ApiInv, TablesOK
<1>4. SetJob(db, j, d) \in [groups : SUBSET ValidNames, jobs : [ValidNames -> Def \cup {NoJob}]]
  BY <1>2, <1>3 DEF ApiInv, TablesOK
<1> HIDE DEF new
<1>5. ASSUME NEW k \in ValidNames, new[k] # NoJob
      PROVE  Deliverable(new[k])
  <2>1. CASE k = j
    BY <1>3, <1>5, <2>1
  <2>2. CASE k # j
    <3>1. new[k] = db.jobs[k]
      BY <1>3, <2>2
    <3>2. Deliverable(db.jobs[k])
      BY <1>5, <3>1, Zenon DEF ApiInv, TablesOK
    <3> QED
      BY <3>1, <3>2, Zenon
  <2> QED
    BY <2>1, <2>2
<1> QED
  BY <1>1, <1>4, <1>5, Zenon DEF TablesOK, new

\* A job that a call finds is a definition in order.
LEMMA OwnedFacts ==
    ASSUME NEW tab, TablesOK(tab), NEW g, NEW j, Owns(tab, g, j)
    PROVE  /\ j \in ValidNames /\ tab.jobs[j] \in Def /\ tab.jobs[j] # NoJob
           /\ Deliverable(tab.jobs[j]) /\ tab.jobs[j].group = g /\ g \in ValidNames
<1>1. j \in ValidNames /\ tab.jobs[j] # NoJob /\ tab.jobs[j].group = g
  BY DEF Owns
<1>2. tab.jobs[j] \in Def
  BY <1>1 DEF TablesOK
<1> QED
  BY <1>1, <1>2, Zenon DEF TablesOK, Deliverable, ValidateName

\* RegisterGroup adds a group; RemoveGroup takes its definitions with it.
LEMMA GroupCallsKeep ==
    ASSUME ApiInv, NEW c \in Calls
    PROVE  TablesOK(RegisterGroup(db, c).db) /\ TablesOK(RemoveGroup(db, c).db)
<1>1. TablesOK(db)
  BY DEF ApiInv
<1>2. /\ db.groups \in SUBSET ValidNames /\ db.jobs \in [ValidNames -> Def \cup {NoJob}]
      /\ db = [groups |-> db.groups, jobs |-> db.jobs]
  BY DEF ApiInv, TablesOK
<1>3. TablesOK(RegisterGroup(db, c).db)
  <2>1. CASE RegisterGroup(db, c) = Refused(db, "invalid") \/ RegisterGroup(db, c) = Refused(db, "duplicate")
    BY <1>1, <2>1 DEF Refused
  <2>2. CASE ValidateName(c.g) /\ RegisterGroup(db, c) = Done({}, [db EXCEPT !.groups = @ \cup {c.g}])
    <3>1. RegisterGroup(db, c).db = [groups |-> db.groups \cup {c.g}, jobs |-> db.jobs]
      BY <1>2, <2>2 DEF Done
    <3> DEFINE x == [groups |-> db.groups \cup {c.g}, jobs |-> db.jobs]
    <3>2. x \in [groups : SUBSET ValidNames, jobs : [ValidNames -> Def \cup {NoJob}]]
      BY <1>2, <2>2 DEF ValidateName
    <3>3. x.groups = db.groups \cup {c.g} /\ x.jobs = db.jobs
      OBVIOUS
    <3> HIDE DEF x
    <3>4. TablesOK(x)
      BY <1>1, <3>2, <3>3, Zenon DEF TablesOK
    <3> QED
      BY <3>1, <3>4 DEF x
  <2> QED
    BY <2>1, <2>2 DEF RegisterGroup
<1>4. TablesOK(RemoveGroup(db, c).db)
  <2>1. CASE RemoveGroup(db, c) = Refused(db, "notfound")
    BY <1>1, <2>1 DEF Refused
  <2>2. CASE /\ c.g \in db.groups
             /\ RemoveGroup(db, c) = Done({}, [groups |-> db.groups \ {c.g},
                  jobs |-> [j \in ValidNames |-> IF Owns(db, c.g, j) THEN NoJob ELSE db.jobs[j]]])
    <3> DEFINE new == [j \in ValidNames |-> IF Owns(db, c.g, j) THEN NoJob ELSE db.jobs[j]]
    <3>1. RemoveGroup(db, c).db = [groups |-> db.groups \ {c.g}, jobs |-> new]
      BY <2>2 DEF Done
    <3>2. /\ new \in [ValidNames -> Def \cup {NoJob}]
          /\ \A j \in ValidNames : new[j] # NoJob => new[j] = db.jobs[j] /\ ~Owns(db, c.g, j)
      BY <1>2
    <3> HIDE DEF new
    <3>3. ASSUME NEW j \in ValidNames, new[j] # NoJob
          PROVE  Deliverable(new[j])
      BY <1>1, <3>2, <3>3, Zenon DEF TablesOK, Owns
    <3> DEFINE x == [groups |-> db.groups \ {c.g}, jobs |-> new]
    <3>4. x \in [groups : SUBSET ValidNames, jobs : [ValidNames -> Def \cup {NoJob}]]
      BY <1>2, <3>2
    <3>5. x.groups = db.groups \ {c.g} /\ x.jobs = new
      OBVIOUS
    <3> HIDE DEF x
    <3>6. TablesOK(x)
      BY <3>3, <3>4, <3>5, Zenon DEF TablesOK
    <3> QED
      BY <3>1, <3>6 DEF x
  <2> QED
    BY <2>1, <2>2 DEF RemoveGroup
<1> QED
  BY <1>3, <1>4

\* What Push has validated it stores in order, whether or not the group is still
\* there.
LEMMA InsertKeeps ==
    ASSUME ApiInv, NEW c \in Calls, ValidJob(c)
    PROVE  TablesOK(InsertJob(db, c).db)
<1> DEFINE d == [group |-> c.g, name |-> c.name, url |-> c.url, payload |-> c.payload,
                 exectime |-> Time(c.exectime),
                 pattern |-> IF c.pattern = Empty THEN "@once" ELSE c.pattern,
                 timeout |-> c.timeout, active |-> TRUE]
<1>1. /\ ValidateName(c.g) /\ ValidateName(c.j) /\ c.name # Empty
      /\ SplitsRequestURL(c.url) /\ ValidatePattern(c.pattern)
      /\ ~(c.exectime < 0) /\ ~(c.timeout < 0)
  BY Zenon DEF ValidJob
<1>2. TablesOK(SetJob(db, c.j, d))
  <2>1. /\ c.g \in Text /\ c.name \in Text /\ c.url \in Seq(Text) /\ c.payload \in Text
        /\ c.exectime \in Int /\ c.pattern \in Text /\ c.timeout \in Int
    BY DEF Calls
  <2>2. Time(c.exectime) \in Int /\ Time(c.exectime) > 0
    BY <1>1, <2>1 DEF Time, Now
  <2>3. d \in Def
    <3>1. (IF c.pattern = Empty THEN "@once" ELSE c.pattern) \in Text
      <4>1. "@once" \in Text
        BY DEF Text
      <4> QED
        BY <2>1, <4>1, Zenon
    <3> QED
      BY <2>1, <2>2, <3>1, Zenon DEF Def
  <2>4. /\ d.url = c.url /\ d.name = c.name /\ d.timeout = c.timeout /\ d.group = c.g
        /\ d.exectime = Time(c.exectime)
        /\ d.pattern = IF c.pattern = Empty THEN "@once" ELSE c.pattern
    BY Zenon
  <2>5. d.pattern # Empty /\ (IsOnce(d.pattern) \/ Parses(d.pattern))
    BY <1>1, <2>4, Zenon DEF ValidatePattern, IsOnce, Parses, Empty
  <2>6. c.timeout >= 0
    BY <1>1, <2>1
  <2> HIDE DEF d
  <2>7. Deliverable(d)
    BY <1>1, <2>2, <2>4, <2>5, <2>6, Zenon DEF Deliverable
  <2>8. c.j \in ValidNames
    BY <1>1, Zenon DEF ValidateName
  <2> QED
    BY <2>3, <2>7, <2>8, SetJobKeeps
<1>3. \/ \E e : InsertJob(db, c) = Refused(db, e)
      \/ InsertJob(db, c) = Done({}, SetJob(db, c.j, d))
  BY Zenon DEF InsertJob
<1> HIDE DEF d
<1>4. CASE \E e : InsertJob(db, c) = Refused(db, e)
  BY <1>4 DEF Refused, ApiInv
<1>5. CASE InsertJob(db, c) = Done({}, SetJob(db, c.j, d))
  BY <1>2, <1>5 DEF Done
<1> QED
  BY <1>3, <1>4, <1>5

\* So does a Push that nothing comes between.
LEMMA PushKeeps ==
    ASSUME ApiInv, NEW c \in Calls
    PROVE  TablesOK(Push(db, c).db)
<1>1. \A e : TablesOK(Refused(db, e).db)
  BY DEF Refused, ApiInv
<1>2. \/ \E e : Push(db, c) = Refused(db, e)
      \/ ValidJob(c) /\ Push(db, c) = InsertJob(db, c)
  BY Zenon DEF Push
<1> QED
  BY <1>1, <1>2, InsertKeeps, Zenon

\* Edit, Active, Pause and Delete change a definition that stays in order.
LEMMA JobCallsKeep ==
    ASSUME ApiInv, NEW c \in Calls
    PROVE  /\ TablesOK(Edit(db, c).db) /\ TablesOK(Active(db, c).db)
           /\ TablesOK(Pause(db, c).db) /\ TablesOK(Delete(db, c).db)
<1> DEFINE old == db.jobs[c.j]
<1>0. c.url \in Seq(Text) /\ c.payload \in Text /\ c.exectime \in Int
  BY DEF Calls
<1>1. Owns(db, c.g, c.j) => c.j \in ValidNames /\ old \in Def /\ Deliverable(old)
  BY OwnedFacts DEF ApiInv
<1>2. \A e : TablesOK(Refused(db, e).db)
  BY DEF Refused, ApiInv
<1>3. ASSUME NEW d \in Def, Owns(db, c.g, c.j), Deliverable(d), d.group = old.group, NEW v
      PROVE  TablesOK(Done(v, SetJob(db, c.j, d)).db)
  <2>1. TablesOK(SetJob(db, c.j, d))
    BY <1>1, <1>3, SetJobKeeps
  <2> QED
    BY <2>1 DEF Done
<1> HIDE DEF old
<1>4. TablesOK(Edit(db, c).db)
  <2> DEFINE d == [old EXCEPT !.url = c.url, !.payload = c.payload]
  <2>1. CASE SplitsRequestURL(c.url) /\ Owns(db, c.g, c.j)
    <3>1. d \in Def
      BY <1>0, <1>1, <2>1 DEF Def
    <3>2. /\ d.url = c.url /\ d.pattern = old.pattern /\ d.name = old.name
          /\ d.timeout = old.timeout /\ d.exectime = old.exectime /\ d.group = old.group
      BY <1>1, <2>1 DEF Def
    <3> HIDE DEF d
    <3>3. Deliverable(d)
      BY <1>1, <2>1, <3>2, Zenon DEF Deliverable
    <3> QED
      BY <1>3, <2>1, <3>1, <3>2, <3>3 DEF Edit, old, d
  <2> QED
    BY <1>2, <2>1 DEF Edit
<1>5. TablesOK(Active(db, c).db)
  <2> DEFINE d == [old EXCEPT !.active = TRUE, !.exectime = Time(c.exectime)]
  <2>1. CASE ~(c.exectime < 0) /\ Owns(db, c.g, c.j)
    <3>0. Time(c.exectime) \in Int /\ Time(c.exectime) > 0
      BY <1>0, <2>1 DEF Time, Now
    <3>1. d \in Def
      BY <1>1, <2>1, <3>0 DEF Def
    <3>2. /\ d.url = old.url /\ d.pattern = old.pattern /\ d.name = old.name
          /\ d.timeout = old.timeout /\ d.exectime = Time(c.exectime) /\ d.group = old.group
      BY <1>1, <2>1 DEF Def
    <3> HIDE DEF d
    <3>3. Deliverable(d)
      BY <1>1, <2>1, <3>0, <3>2, Zenon DEF Deliverable
    <3> QED
      BY <1>3, <2>1, <3>1, <3>2, <3>3 DEF Active, old, d
  <2> QED
    BY <1>2, <2>1 DEF Active
<1>6. TablesOK(Pause(db, c).db)
  <2> DEFINE d == [old EXCEPT !.active = FALSE]
  <2>1. CASE Owns(db, c.g, c.j)
    <3>1. d \in Def
      BY <1>1, <2>1 DEF Def
    <3>2. /\ d.url = old.url /\ d.pattern = old.pattern /\ d.name = old.name
          /\ d.timeout = old.timeout /\ d.exectime = old.exectime /\ d.group = old.group
      BY <1>1, <2>1 DEF Def
    <3> HIDE DEF d
    <3>3. Deliverable(d)
      BY <1>1, <2>1, <3>2, Zenon DEF Deliverable
    <3> QED
      BY <1>3, <2>1, <3>1, <3>2, <3>3 DEF Pause, old, d
  <2> QED
    BY <1>2, <2>1 DEF Pause
<1>7. TablesOK(Delete(db, c).db)
  <2>1. CASE Owns(db, c.g, c.j)
    <3>1. TablesOK(SetJob(db, c.j, NoJob))
      BY <1>1, <2>1, SetJobKeeps
    <3> QED
      BY <2>1, <3>1 DEF Delete, Done
  <2> QED
    BY <1>2, <2>1 DEF Delete
<1> QED
  BY <1>4, <1>5, <1>6, <1>7

\* DeleteJobs only removes definitions.
LEMMA DeleteJobsKeeps ==
    ASSUME ApiInv, NEW c \in Calls
    PROVE  TablesOK(DeleteJobs(db, c).db)
<1> DEFINE del == {j \in ValidNames : Owns(db, c.g, j) /\ c.name \in {Empty, db.jobs[j].name}}
           new == [j \in ValidNames |-> IF j \in del THEN NoJob ELSE db.jobs[j]]
           x == [groups |-> db.groups, jobs |-> new]
<1>1. /\ db.groups \in SUBSET ValidNames /\ db.jobs \in [ValidNames -> Def \cup {NoJob}]
      /\ db = [groups |-> db.groups, jobs |-> db.jobs]
  BY DEF ApiInv, TablesOK
<1>2. DeleteJobs(db, c).db = x
  <2> HIDE DEF del
  <2>1. [db EXCEPT !.jobs = [j \in ValidNames |-> IF j \in del THEN NoJob ELSE @[j]]] = x
    BY <1>1
  <2> QED
    BY <2>1, Zenon DEF DeleteJobs, Done, del
<1> HIDE DEF del
<1>3. /\ new \in [ValidNames -> Def \cup {NoJob}]
      /\ \A j \in ValidNames : new[j] # NoJob => new[j] = db.jobs[j]
  BY <1>1
<1> HIDE DEF new
<1>4. ASSUME NEW j \in ValidNames, new[j] # NoJob
      PROVE  Deliverable(new[j])
  BY <1>3, <1>4, Zenon DEF ApiInv, TablesOK
<1>5. x \in [groups : SUBSET ValidNames, jobs : [ValidNames -> Def \cup {NoJob}]]
  BY <1>1, <1>3
<1>6. x.groups = db.groups /\ x.jobs = new
  OBVIOUS
<1> HIDE DEF x
<1> QED
  BY <1>2, <1>4, <1>5, <1>6, Zenon DEF TablesOK

-----------------------------------------------------------------------------
(* Every call of the queue *)

Ops == GrpcOps \cup {"DeleteJobs", "Stats", "History", "GroupInfo", "QueryGroups"}

\* The answer of a call: an error the transports know, a value, the tables.
Answer(a) == a.err \in Errs /\ a = [err |-> a.err, val |-> a.val, db |-> a.db]

\* Refused and Done make answers.
LEMMA AnswerForms ==
    /\ \A e, x : e \in Errs => Answer(Refused(x, e)) /\ Refused(x, e).db = x
    /\ \A v, x : Answer(Done(v, x)) /\ Done(v, x).db = x
BY DEF Answer, Refused, Done, Errs

\* The calls that only read answer, and leave the tables alone.
LEMMA ReadAnswers ==
    ASSUME NEW tab, NEW c, c.op \in {"List", "Stats", "History", "GroupInfo", "QueryGroups"}
    PROVE  Answer(Read(tab, c)) /\ Read(tab, c).db = tab
<1>1. CASE c.op = "List"
  BY <1>1, AnswerForms DEF Read
<1>2. CASE c.op = "GroupInfo"
  BY <1>2, AnswerForms DEF Read, Errs
<1>3. CASE c.op = "QueryGroups"
  BY <1>3, AnswerForms DEF Read
<1>4. CASE c.op = "History"
  BY <1>4, AnswerForms, SMTT(30) DEF Read
<1>5. CASE c.op = "Stats"
  BY <1>5, AnswerForms DEF Read
<1> QED
  BY <1>1, <1>2, <1>3, <1>4, <1>5

\* So do the calls that write.
LEMMA WriteAnswers ==
    ASSUME NEW c
    PROVE  /\ Answer(RegisterGroup(db, c)) /\ Answer(RemoveGroup(db, c)) /\ Answer(Push(db, c))
           /\ Answer(Edit(db, c)) /\ Answer(Active(db, c)) /\ Answer(Pause(db, c)) /\ Answer(Delete(db, c))
           /\ Answer(DeleteJobs(db, c))
<1>0. {"invalid", "notfound", "duplicate"} \subseteq Errs
  BY DEF Errs
<1>1. Answer(RegisterGroup(db, c)) /\ Answer(RemoveGroup(db, c))
  BY <1>0, AnswerForms DEF RegisterGroup, RemoveGroup
<1>2. Answer(Push(db, c))
  <2>1. \/ \E e \in {"invalid", "notfound", "duplicate"} : Push(db, c) = Refused(db, e)
        \/ \E v, x : Push(db, c) = Done(v, x)
    BY Zenon DEF Push, InsertJob
  <2> QED
    BY <1>0, <2>1, AnswerForms, Zenon
<1>3. Answer(Edit(db, c)) /\ Answer(Active(db, c))
  BY <1>0, AnswerForms DEF Edit, Active
<1>4. Answer(Pause(db, c)) /\ Answer(Delete(db, c))
  BY <1>0, AnswerForms DEF Pause, Delete
<1>5. Answer(DeleteJobs(db, c))
  BY AnswerForms, Zenon DEF DeleteJobs
<1> QED
  BY <1>1, <1>2, <1>3, <1>4, <1>5

\* Which operation serves a call.
LEMMA QueneOf ==
    ASSUME NEW tab, NEW c
    PROVE  /\ c.op = "RegisterGroup" => Quene(tab, c) = RegisterGroup(tab, c)
           /\ c.op = "RemoveGroup" => Quene(tab, c) = RemoveGroup(tab, c)
           /\ c.op = "Push" => Quene(tab, c) = Push(tab, c)
           /\ c.op = "Edit" => Quene(tab, c) = Edit(tab, c)
           /\ c.op = "Active" => Quene(tab, c) = Active(tab, c)
           /\ c.op = "Pause" => Quene(tab, c) = Pause(tab, c)
           /\ c.op = "Delete" => Quene(tab, c) = Delete(tab, c)
           /\ c.op = "DeleteJobs" => Quene(tab, c) = DeleteJobs(tab, c)
           /\ c.op \in {"List", "Stats", "History", "GroupInfo", "QueryGroups"} =>
                  Quene(tab, c) = Read(tab, c)
BY DEF Quene

\* Every call answers, and keeps the tables in order.
LEMMA QueneKeeps ==
    ASSUME NEW c, c.op \in Ops
    PROVE  Answer(Quene(db, c)) /\ (ApiInv /\ c \in Calls => TablesOK(Quene(db, c).db))
<1>1. CASE c.op \in {"List", "Stats", "History", "GroupInfo", "QueryGroups"}
  BY <1>1, QueneOf, ReadAnswers DEF ApiInv
<1>2. CASE c.op \in {"RegisterGroup", "RemoveGroup"}
  BY <1>2, QueneOf, WriteAnswers, GroupCallsKeep
<1>3. CASE c.op = "Push"
  BY <1>3, QueneOf, WriteAnswers, PushKeeps
<1>4. CASE c.op \in {"Edit", "Active", "Pause", "Delete"}
  BY <1>4, QueneOf, WriteAnswers, JobCallsKeep
<1>5. CASE c.op = "DeleteJobs"
  BY <1>5, QueneOf, WriteAnswers, DeleteJobsKeeps
<1> QED
  BY <1>1, <1>2, <1>3, <1>4, <1>5 DEF Ops, GrpcOps

\* So does a call whose storage fails, before or after the commit.
LEMMA CallKeeps ==
    ASSUME NEW c, c.op \in Ops, NEW f \in StorageFaults
    PROVE  Answer(Call(db, c, f)) /\ (ApiInv /\ c \in Calls => TablesOK(Call(db, c, f).db))
<1>1. CASE f = "none" \/ Quene(db, c).err = "invalid"
  <2>1. Call(db, c, f) = Quene(db, c)
    BY <1>1 DEF Call
  <2> QED
    BY <2>1, QueneKeeps, Zenon
<1>2. CASE f = "failed" /\ Quene(db, c).err # "invalid"
  <2>1. Call(db, c, f) = Refused(db, "internal")
    BY <1>2 DEF Call
  <2> QED
    BY <2>1, AnswerForms DEF ApiInv, Errs
<1>3. CASE f = "unknown" /\ Quene(db, c).err # "invalid"
  <2>1. Call(db, c, f) = Refused(Quene(db, c).db, "internal")
    BY <1>3 DEF Call
  <2> QED
    BY <2>1, QueneKeeps, AnswerForms DEF Errs
<1> QED
  BY <1>1, <1>2, <1>3 DEF StorageFaults

-----------------------------------------------------------------------------
(* What the transports decode *)

\* Strings are texts, and sequences of strings are sequences of texts.
LEMMA StringsAreTexts == STRING \subseteq Text /\ Seq(STRING) \subseteq Seq(Text)
<1>1. STRING \subseteq Text
  BY Zenon DEF Text
<1>2. ASSUME NEW S, S \subseteq Text
      PROVE  Seq(S) \subseteq Seq(Text)
  BY <1>2
<1> QED
  BY <1>1, <1>2, Zenon

\* Names, urls and the literals are texts.
LEMMA Texts ==
    /\ Names \subseteq Text /\ ValidNames \subseteq Text /\ Uid \in Text
    /\ Urls \subseteq Seq(Text) /\ Targets \subseteq Seq(Text)
    /\ Ops \subseteq Text /\ JobNames \subseteq Text
    /\ {Empty, "a", "n", "m", "p", "x", "@once", "@daily", "junk", "fields", "none",
        "HTTP@", "GRPC@", "OTHER@"} \subseteq Text
    /\ <<>> \in Seq(Text) /\ <<"GRPC@", "GRPC@", "x">> \in Seq(Text)
<1>2. Names \subseteq Text /\ ValidNames \subseteq Text /\ Uid \in Text
  BY StringsAreTexts, NamesAssumption, Zenon DEF Names
<1>3. Ops \subseteq Text /\ JobNames \subseteq Text
  BY DEF Text, Ops, GrpcOps, JobNames
<1>4. {Empty, "a", "n", "m", "p", "x", "@once", "@daily", "junk", "fields", "none",
       "HTTP@", "GRPC@", "OTHER@"} \subseteq Text
  BY DEF Text
<1>5. <<>> \in Seq(Text) /\ <<"GRPC@", "GRPC@", "x">> \in Seq(Text)
  <2>1. "GRPC@" \in Text /\ "x" \in Text
    BY <1>4
  <2> QED
    BY <2>1
<1>7. Urls \subseteq Seq(Text) /\ Targets \subseteq Seq(Text)
  BY StringsAreTexts, UrlsAssumption, Zenon
<1> QED
  BY <1>2, <1>3, <1>4, <1>5, <1>7, Zenon

\* A call with other values of its type is a call.
LEMMA CallUpdates ==
    ASSUME NEW c \in Calls
    PROVE  /\ \A x \in Text : /\ [c EXCEPT !.op = x] \in Calls /\ [c EXCEPT !.g = x] \in Calls
                              /\ [c EXCEPT !.j = x] \in Calls /\ [c EXCEPT !.name = x] \in Calls
                              /\ [c EXCEPT !.payload = x] \in Calls
                              /\ [c EXCEPT !.pattern = x] \in Calls
           /\ \A u \in Seq(Text) : [c EXCEPT !.url = u] \in Calls
           /\ \A n \in Int : /\ [c EXCEPT !.exectime = n] \in Calls
                             /\ [c EXCEPT !.timeout = n] \in Calls
                             /\ [c EXCEPT !.limit = n] \in Calls
BY DEF Calls

\* The empty call, the empty body and the bodies of AddJob are calls.
LEMMA CallForms ==
    NoCall \in Calls /\ NoFields \in Calls /\ GoodJob \in Calls /\ DailyJob \in Calls
<1>1. NoCall \in Calls
  <2>1. "none" \in Text /\ Empty \in Text /\ <<>> \in Seq(Text)
    BY Texts
  <2> QED
    BY <2>1 DEF NoCall, Calls
<1>2. NoFields \in Calls
  BY <1>1, Texts, CallUpdates DEF NoFields
<1>3. GoodJob \in Calls
  <2>1. /\ "a" \in Text /\ "n" \in Text /\ "p" \in Text
        /\ <<"GRPC@", "GRPC@", "x">> \in Seq(Text)
    BY Texts
  <2> QED
    BY <1>2, <2>1 DEF GoodJob, Calls
<1>4. DailyJob \in Calls
  <2>1. "m" \in Text /\ "@daily" \in Text /\ Empty \in Text /\ 5 \in Int
    BY Texts
  <2>2. \A x, y, z \in Text, n \in Int :
            [GoodJob EXCEPT !.name = x, !.pattern = y, !.payload = z, !.timeout = n] \in Calls
    BY <1>3 DEF Calls
  <2> QED
    BY <2>1, <2>2, Zenon DEF DailyJob
<1> QED
  BY <1>1, <1>2, <1>3, <1>4

\* What readJSON decodes is a call, whatever the body.
LEMMA FieldsAreCalls ==
    ASSUME NEW route \in DOMAIN Routes, NEW f \in Fields(route)
    PROVE  f \in Calls
<1>0. ExecTimes \subseteq Int /\ -1 \in Int
  BY DEF ExecTimes
<1>1. AddFields \subseteq Calls
  <2>1. \A j \in Names : [GoodJob EXCEPT !.j = j] \in Calls
    BY Texts, CallForms, CallUpdates
  <2>2. DailyJob \in Calls
    BY CallForms
  <2>3. \A u \in Urls : [GoodJob EXCEPT !.url = u] \in Calls
    BY Texts, CallForms, CallUpdates
  <2>4. \A e \in ExecTimes : [GoodJob EXCEPT !.exectime = e] \in Calls
    BY <1>0, CallForms, CallUpdates
  <2>5. /\ [GoodJob EXCEPT !.name = Empty] \in Calls /\ [GoodJob EXCEPT !.pattern = "@once"] \in Calls
        /\ [GoodJob EXCEPT !.pattern = "junk"] \in Calls /\ [GoodJob EXCEPT !.timeout = -1] \in Calls
    <3>1. Empty \in Text /\ "@once" \in Text /\ "junk" \in Text
      BY Texts
    <3> QED
      BY <1>0, <3>1, CallForms, CallUpdates, Zenon
  <2> QED
    BY <2>1, <2>2, <2>3, <2>4, <2>5, ZenonT(60) DEF AddFields
<1>2. \A g \in Names : GroupBody(g) \in Calls
  BY Texts, CallForms, CallUpdates DEF GroupBody
<1>3. \A u \in Urls : PatchBody(u) \in Calls
  <2>1. Urls \subseteq Seq(Text) /\ "p" \in Text
    BY Texts
  <2> QED
    BY <2>1, CallForms DEF Calls, PatchBody
<1>4. \A e \in ExecTimes : ActivateBody(e) \in Calls
  BY <1>0, CallForms, CallUpdates DEF ActivateBody
<1>5. \/ f \in AddFields
      \/ \E g \in Names : f = GroupBody(g)
      \/ \E u \in Urls : f = PatchBody(u)
      \/ \E e \in ExecTimes : f = ActivateBody(e)
      \/ f = NoFields
  BY DEF Fields
<1> QED
  BY <1>1, <1>2, <1>3, <1>4, <1>5, CallForms, Zenon

\* A request of the router, with any path, body and query.
IsRequest(r) ==
    /\ r.route \in DOMAIN Routes
    /\ r.group \in Text /\ r.job \in Text /\ r.query \in Text /\ r.fields \in Calls

\* The routes of buildRouter.
LEMMA RouteNames ==
    DOMAIN Routes = {"post_groups", "get_groups", "get_group", "delete_group", "post_jobs",
                     "get_jobs", "delete_jobs", "patch_job", "delete_job", "post_pause",
                     "post_activate", "get_history", "get_status"}
BY DEF Routes

\* The requests enumerated are requests.
LEMMA RestRequestsAre ==
    ASSUME NEW route \in DOMAIN Routes, NEW r \in RestRequests[route]
    PROVE  IsRequest(r)
<1> DEFINE jobs == IF route \in {"patch_job", "delete_job", "post_pause", "post_activate"}
                   THEN PathNames ELSE {"a"}
           queries == IF route \in {"delete_jobs", "get_history"} THEN JobNames ELSE {Empty}
           fields == Fields(route)
<1>1. RestRequests[route] =
        {Request(route, g, j, "json", f, x) : g \in PathNames, j \in jobs, f \in fields, x \in queries}
        \cup {Request(route, g, j, body, NoFields, Empty) : g \in PathNames, j \in jobs, body \in Bodies}
  BY DEF RestRequests
<1>2. jobs \subseteq Text /\ queries \subseteq Text /\ PathNames \subseteq Text /\ Empty \in Text
  BY Texts DEF PathNames
<1>3. fields \subseteq Calls /\ NoFields \in Calls
  BY FieldsAreCalls, CallForms
<1> HIDE DEF jobs, queries, fields
<1>4. \/ \E g \in PathNames, j \in jobs, f \in fields, x \in queries :
              r = Request(route, g, j, "json", f, x)
      \/ \E g \in PathNames, j \in jobs, body \in Bodies :
              r = Request(route, g, j, body, NoFields, Empty)
  BY <1>1
<1>5. ASSUME NEW g \in Text, NEW j \in Text, NEW body, NEW f \in Calls, NEW x \in Text
      PROVE  IsRequest(Request(route, g, j, body, f, x))
  BY DEF IsRequest, Request
<1> QED
  BY <1>2, <1>3, <1>4, <1>5, Zenon

\* c is a call of the operation o.
Makes(c, o) == c \in Calls /\ c.op = o

\* A call filled in with texts and numbers is a call of that operation.
LEMMA CallMade ==
    ASSUME NEW c \in Calls, NEW o \in Text, NEW g \in Text
    PROVE  /\ Makes([c EXCEPT !.op = o], o)
           /\ Makes([c EXCEPT !.op = o, !.g = g], o)
           /\ \A x \in Text : /\ Makes([c EXCEPT !.op = o, !.g = g, !.j = x], o)
                              /\ Makes([c EXCEPT !.op = o, !.g = g, !.name = x], o)
           /\ \A n \in Int : Makes([c EXCEPT !.op = o, !.g = g, !.limit = n], o)
           /\ \A u \in Seq(Text) : Makes([c EXCEPT !.op = o, !.g = g, !.url = u], o)
           /\ \A x \in Text, n \in Int : Makes([c EXCEPT !.op = o, !.g = g, !.j = x, !.exectime = n], o)
           /\ \A x, p \in Text : Makes([c EXCEPT !.op = o, !.g = g, !.j = x, !.payload = p], o)
           /\ \A x, p \in Text, u \in Seq(Text) :
                  Makes([c EXCEPT !.op = o, !.g = g, !.j = x, !.url = u, !.payload = p], o)
<1>1. Makes([c EXCEPT !.op = o], o) /\ Makes([c EXCEPT !.op = o, !.g = g], o)
  BY DEF Makes, Calls
<1>2. \A x \in Text : /\ Makes([c EXCEPT !.op = o, !.g = g, !.j = x], o)
                      /\ Makes([c EXCEPT !.op = o, !.g = g, !.name = x], o)
  BY DEF Makes, Calls
<1>3. \A n \in Int : Makes([c EXCEPT !.op = o, !.g = g, !.limit = n], o)
  BY DEF Makes, Calls
<1>4. \A u \in Seq(Text) : Makes([c EXCEPT !.op = o, !.g = g, !.url = u], o)
  BY DEF Makes, Calls
<1>5. \A x \in Text, n \in Int : Makes([c EXCEPT !.op = o, !.g = g, !.j = x, !.exectime = n], o)
  BY DEF Makes, Calls
<1>6. \A x, p \in Text : Makes([c EXCEPT !.op = o, !.g = g, !.j = x, !.payload = p], o)
  BY DEF Makes, Calls
<1>7. \A x, p \in Text, u \in Seq(Text) :
          Makes([c EXCEPT !.op = o, !.g = g, !.j = x, !.url = u, !.payload = p], o)
  BY DEF Makes, Calls
<1> QED
  BY <1>1, <1>2, <1>3, <1>4, <1>5, <1>6, <1>7, Zenon

\* Every handler decodes its request into a call of the queue.
LEMMA RestDecodes ==
    ASSUME NEW r, IsRequest(r)
    PROVE  RestCall(r) \in Calls /\ RestCall(r).op \in Ops
<1> DEFINE p == Decoded(r)
           c == RestCall(r)
<1> SUFFICES \E o \in Ops : Makes(c, o)
  BY Zenon DEF Makes
<1>1. p \in Calls
  BY CallForms DEF Decoded, IsRequest
<1>2. /\ p.j \in Text /\ p.g \in Text /\ p.url \in Seq(Text) /\ p.payload \in Text /\ p.exectime \in Int
      /\ r.group \in Text /\ r.job \in Text /\ r.query \in Text
  BY <1>1 DEF IsRequest, Calls
<1>3. /\ Ops \subseteq Text /\ Uid \in Text /\ NoCall \in Calls
      /\ {"RegisterGroup", "RemoveGroup", "Push", "Edit", "Delete", "Pause", "Active", "List",
          "DeleteJobs", "Stats", "History", "GroupInfo", "QueryGroups"} \subseteq Ops
  BY Texts, CallForms DEF Ops, GrpcOps
<1> HIDE DEF p
<1>4. CASE r.route \in {"post_groups", "delete_group"}
  <2>1. \/ c = [NoCall EXCEPT !.op = "RegisterGroup", !.g = p.g]
        \/ c = [NoCall EXCEPT !.op = "RemoveGroup", !.g = r.group]
    BY <1>4 DEF RestCall, RestGroupCall, p
  <2> HIDE DEF c
  <2>3. CASE c = [NoCall EXCEPT !.op = "RegisterGroup", !.g = p.g]
    <3>1. "RegisterGroup" \in Ops /\ "RegisterGroup" \in Text
      BY <1>3
    <3>2. Makes(c, "RegisterGroup")
      BY <1>2, <1>3, <2>3, <3>1, CallMade, Zenon
    <3> QED
      BY <3>1, <3>2, Zenon
  <2>4. CASE c = [NoCall EXCEPT !.op = "RemoveGroup", !.g = r.group]
    <3>1. "RemoveGroup" \in Ops /\ "RemoveGroup" \in Text
      BY <1>3
    <3>2. Makes(c, "RemoveGroup")
      BY <1>2, <1>3, <2>4, <3>1, CallMade, Zenon
    <3> QED
      BY <3>1, <3>2, Zenon
  <2> QED
    BY <2>1, <2>3, <2>4, Zenon
<1>5. CASE r.route \in {"get_status", "get_history", "get_group", "get_groups", "get_jobs"}
  <2> DEFINE n == IF r.query = Empty THEN 100 ELSE 7
  <2>1. \/ c = [NoCall EXCEPT !.op = "Stats"]
        \/ c = [NoCall EXCEPT !.op = "History", !.g = r.group, !.limit = n]
        \/ c = [NoCall EXCEPT !.op = "GroupInfo", !.g = r.group]
        \/ c = [NoCall EXCEPT !.op = "QueryGroups"]
        \/ c = [NoCall EXCEPT !.op = "List", !.g = r.group]
    BY <1>5 DEF RestCall, RestReadCall
  <2>2. n \in Int
    OBVIOUS
  <2> HIDE DEF c, n
  <2>3. CASE c = [NoCall EXCEPT !.op = "Stats"]
    <3>1. "Stats" \in Ops /\ "Stats" \in Text
      BY <1>3
    <3>2. Makes(c, "Stats")
      BY <1>2, <1>3, <2>2, <2>3, <3>1, CallMade, Zenon
    <3> QED
      BY <3>1, <3>2, Zenon
  <2>4. CASE c = [NoCall EXCEPT !.op = "History", !.g = r.group, !.limit = n]
    <3>1. "History" \in Ops /\ "History" \in Text
      BY <1>3
    <3>2. Makes(c, "History")
      BY <1>2, <1>3, <2>2, <2>4, <3>1, CallMade, Zenon
    <3> QED
      BY <3>1, <3>2, Zenon
  <2>5. CASE c = [NoCall EXCEPT !.op = "GroupInfo", !.g = r.group]
    <3>1. "GroupInfo" \in Ops /\ "GroupInfo" \in Text
      BY <1>3
    <3>2. Makes(c, "GroupInfo")
      BY <1>2, <1>3, <2>2, <2>5, <3>1, CallMade, Zenon
    <3> QED
      BY <3>1, <3>2, Zenon
  <2>6. CASE c = [NoCall EXCEPT !.op = "QueryGroups"]
    <3>1. "QueryGroups" \in Ops /\ "QueryGroups" \in Text
      BY <1>3
    <3>2. Makes(c, "QueryGroups")
      BY <1>2, <1>3, <2>2, <2>6, <3>1, CallMade, Zenon
    <3> QED
      BY <3>1, <3>2, Zenon
  <2>7. CASE c = [NoCall EXCEPT !.op = "List", !.g = r.group]
    <3>1. "List" \in Ops /\ "List" \in Text
      BY <1>3
    <3>2. Makes(c, "List")
      BY <1>2, <1>3, <2>2, <2>7, <3>1, CallMade, Zenon
    <3> QED
      BY <3>1, <3>2, Zenon
  <2> QED
    BY <2>1, <2>3, <2>4, <2>5, <2>6, <2>7, Zenon
<1>6. CASE r.route = "post_jobs"
  <2> DEFINE id == IF p.j = Empty THEN Uid ELSE p.j
  <2>1. c = [p EXCEPT !.op = "Push", !.g = r.group, !.j = id]
    BY <1>6 DEF RestCall, RestJobCall, p
  <2>2. id \in Text
    BY <1>2, <1>3
  <2> HIDE DEF c, id
  <2> QED
    BY <1>1, <1>2, <1>3, <2>1, <2>2, CallMade, Zenon
<1>7. CASE r.route = "patch_job"
  <2>1. c = [NoCall EXCEPT !.op = "Edit", !.g = r.group, !.j = r.job, !.url = p.url,
                           !.payload = p.payload]
    BY <1>7 DEF RestCall, RestJobCall, p
  <2> HIDE DEF c
  <2> QED
    BY <1>2, <1>3, <2>1, CallMade, Zenon
<1>8. CASE r.route \in {"delete_job", "delete_jobs", "post_pause", "post_activate"}
  <2>1. \/ c = [NoCall EXCEPT !.op = "Delete", !.g = r.group, !.j = r.job]
        \/ c = [NoCall EXCEPT !.op = "DeleteJobs", !.g = r.group, !.name = r.query]
        \/ c = [NoCall EXCEPT !.op = "Pause", !.g = r.group, !.j = r.job]
        \/ c = [NoCall EXCEPT !.op = "Active", !.g = r.group, !.j = r.job, !.exectime = p.exectime]
    BY <1>8 DEF RestCall, RestJobCall, p
  <2> HIDE DEF c
  <2>3. CASE c = [NoCall EXCEPT !.op = "Delete", !.g = r.group, !.j = r.job]
    <3>1. "Delete" \in Ops /\ "Delete" \in Text
      BY <1>3
    <3>2. Makes(c, "Delete")
      BY <1>2, <1>3, <2>3, <3>1, CallMade, Zenon
    <3> QED
      BY <3>1, <3>2, Zenon
  <2>4. CASE c = [NoCall EXCEPT !.op = "DeleteJobs", !.g = r.group, !.name = r.query]
    <3>1. "DeleteJobs" \in Ops /\ "DeleteJobs" \in Text
      BY <1>3
    <3>2. Makes(c, "DeleteJobs")
      BY <1>2, <1>3, <2>4, <3>1, CallMade, Zenon
    <3> QED
      BY <3>1, <3>2, Zenon
  <2>5. CASE c = [NoCall EXCEPT !.op = "Pause", !.g = r.group, !.j = r.job]
    <3>1. "Pause" \in Ops /\ "Pause" \in Text
      BY <1>3
    <3>2. Makes(c, "Pause")
      BY <1>2, <1>3, <2>5, <3>1, CallMade, Zenon
    <3> QED
      BY <3>1, <3>2, Zenon
  <2>6. CASE c = [NoCall EXCEPT !.op = "Active", !.g = r.group, !.j = r.job, !.exectime = p.exectime]
    <3>1. "Active" \in Ops /\ "Active" \in Text
      BY <1>3
    <3>2. Makes(c, "Active")
      BY <1>2, <1>3, <2>6, <3>1, CallMade, Zenon
    <3> QED
      BY <3>1, <3>2, Zenon
  <2> QED
    BY <2>1, <2>3, <2>4, <2>5, <2>6, Zenon
<1> QED
  BY <1>4, <1>5, <1>6, <1>7, <1>8, RouteNames DEF IsRequest

\* A message of the gRPC service, with any fields.
IsMessage(q) ==
    /\ q.call \in Calls /\ q.call.op \in GrpcOps
    /\ q.delivery \in Deliveries /\ q.target \in Seq(Text) /\ q.size \in Sizes

\* Each message is one of its operation.
LEMMA MessagesMake ==
    ASSUME NEW g \in Text, NEW j \in Text
    PROVE  /\ \A f \in Calls : Makes(AddMessage(f, g), "Push")
           /\ \A e \in Int : Makes(ActiveMessage(g, j, e), "Active")
           /\ \A p \in Text : Makes(EditMessage(g, j, p), "Edit")
           /\ \A op \in Text : Makes(NameMessage(op, g, j), op)
<1>1. /\ "Push" \in Text /\ "Active" \in Text /\ "Edit" \in Text /\ <<>> \in Seq(Text)
      /\ NoCall \in Calls
  BY Texts, CallForms DEF Ops, GrpcOps
<1>2. \A f \in Calls : Makes(AddMessage(f, g), "Push")
  BY <1>1, CallMade, Zenon DEF AddMessage
<1>3. \A e \in Int : Makes(ActiveMessage(g, j, e), "Active")
  BY <1>1, CallMade, Zenon DEF ActiveMessage
<1>4. \A p \in Text : Makes(EditMessage(g, j, p), "Edit")
  BY <1>1, CallMade, Zenon DEF EditMessage
<1>5. \A op \in Text : Makes(NameMessage(op, g, j), op)
  BY <1>1, CallMade, Zenon DEF NameMessage
<1> QED
  BY <1>2, <1>3, <1>4, <1>5

\* A call of a method, with an address and a size, is a message.
LEMMA MessageIs ==
    ASSUME NEW op \in GrpcOps, NEW c, Makes(c, op),
           NEW d \in Deliveries, NEW t \in Seq(Text), NEW z \in Sizes
    PROVE  IsMessage(Message(c, d, t, z)) /\ Message(c, d, t, z).call.op = op
BY DEF Message, IsMessage, Makes

\* So is one without an address.
LEMMA PlainIs ==
    ASSUME NEW op \in GrpcOps, NEW c, Makes(c, op)
    PROVE  IsMessage(Plain(c)) /\ Plain(c).call.op = op
<1>1. "HTTP" \in Deliveries /\ <<>> \in Seq(Text) /\ "fits" \in Sizes
  BY Texts DEF Deliveries, Sizes
<1> QED
  BY <1>1, MessageIs, Zenon DEF Plain

\* The messages enumerated are messages.
LEMMA GrpcRequestsAre ==
    ASSUME NEW op \in GrpcOps, NEW q \in GrpcRequests[op]
    PROVE  IsMessage(q) /\ q.call.op = op
<1>1. /\ Names \subseteq Text /\ "p" \in Text /\ Targets \subseteq Seq(Text) /\ ExecTimes \subseteq Int
      /\ op \in Text /\ NoCall \in Calls /\ GoodJob \in Calls
  BY Texts, CallForms DEF Ops, ExecTimes
<1>2. AddFields \subseteq Calls
  <2>1. "post_jobs" \in DOMAIN Routes /\ Fields("post_jobs") = AddFields
    BY RouteNames DEF Fields
  <2> QED
    BY <2>1, FieldsAreCalls
<1>3. "GRPC" \in Deliveries /\ <<"GRPC@", "x">> \in Seq(Text) /\ "fits" \in Sizes
  <2>1. "GRPC@" \in Text /\ "x" \in Text
    BY Texts
  <2> QED
    BY <2>1 DEF Deliveries, Sizes
<1>4. \/ op = "Push" /\ q \in AddMessages
      \/ /\ op = "Edit"
         /\ \E g \in Names, j \in Names, d \in Deliveries, t \in Targets, z \in Sizes :
                q = Message(EditMessage(g, j, "p"), d, t, z)
      \/ op = "Active" /\ \E g \in Names, j \in Names, e \in ExecTimes : q = Plain(ActiveMessage(g, j, e))
      \/ \E g \in Names, j \in Names : q = Plain(NameMessage(op, g, j))
  BY DEF GrpcRequests
<1>5. CASE op = "Push" /\ q \in AddMessages
  <2>1. \A f \in Calls, g \in Text : Makes(AddMessage(f, g), op)
    BY <1>5, MessagesMake, Zenon
  <2>2. CASE \E f \in AddFields, g \in Names :
                 q = Message(AddMessage(f, g), "GRPC", <<"GRPC@", "x">>, "fits")
    <3>1. PICK f \in AddFields, g \in Names :
              q = Message(AddMessage(f, g), "GRPC", <<"GRPC@", "x">>, "fits")
      BY <2>2
    <3>2. Makes(AddMessage(f, g), op)
      BY <1>1, <1>2, <2>1
    <3> QED
      BY <1>3, <3>1, <3>2, MessageIs
  <2>3. CASE \E g \in Names, d \in Deliveries, t \in Targets, z \in Sizes :
                 q = Message(AddMessage(GoodJob, g), d, t, z)
    <3>1. PICK g \in Names, d \in Deliveries, t \in Targets, z \in Sizes :
              q = Message(AddMessage(GoodJob, g), d, t, z)
      BY <2>3
    <3>2. Makes(AddMessage(GoodJob, g), op) /\ t \in Seq(Text)
      BY <1>1, <2>1
    <3> QED
      BY <3>1, <3>2, MessageIs
  <2> QED
    BY <1>5, <2>2, <2>3 DEF AddMessages
<1>6. CASE /\ op = "Edit"
           /\ \E g \in Names, j \in Names, d \in Deliveries, t \in Targets, z \in Sizes :
                  q = Message(EditMessage(g, j, "p"), d, t, z)
  <2>1. PICK g \in Names, j \in Names, d \in Deliveries, t \in Targets, z \in Sizes :
            q = Message(EditMessage(g, j, "p"), d, t, z)
    BY <1>6
  <2>2. g \in Text /\ j \in Text /\ t \in Seq(Text)
    BY <1>1
  <2>3. Makes(EditMessage(g, j, "p"), op)
    BY <1>1, <1>6, <2>2, MessagesMake, Zenon
  <2> QED
    BY <2>1, <2>2, <2>3, MessageIs
<1>7. CASE op = "Active" /\ \E g \in Names, j \in Names, e \in ExecTimes : q = Plain(ActiveMessage(g, j, e))
  <2>1. PICK g \in Names, j \in Names, e \in ExecTimes : q = Plain(ActiveMessage(g, j, e))
    BY <1>7
  <2>2. g \in Text /\ j \in Text /\ e \in Int
    BY <1>1
  <2>3. Makes(ActiveMessage(g, j, e), op)
    BY <1>7, <2>2, MessagesMake, Zenon
  <2> QED
    BY <2>1, <2>3, PlainIs
<1>8. CASE \E g \in Names, j \in Names : q = Plain(NameMessage(op, g, j))
  <2>1. PICK g \in Names, j \in Names : q = Plain(NameMessage(op, g, j))
    BY <1>8
  <2>2. g \in Text /\ j \in Text
    BY <1>1
  <2>3. Makes(NameMessage(op, g, j), op)
    BY <1>1, <2>2, MessagesMake, Zenon
  <2> QED
    BY <2>1, <2>3, PlainIs
<1> QED
  BY <1>4, <1>5, <1>6, <1>7, <1>8, Zenon

\* buildRequestURL makes a url, or none.
LEMMA BuiltURL ==
    ASSUME NEW d, NEW t \in Seq(Text)
    PROVE  BuildRequestURL(d, t) \in Seq(Text)
<1>1. <<>> \in Seq(Text) /\ "GRPC@" \in Text /\ "HTTP@" \in Text
  BY Texts
<1> QED
  BY <1>1 DEF BuildRequestURL

\* Every method of the service makes a call of the queue.
LEMMA GrpcDecodes ==
    ASSUME NEW q, IsMessage(q)
    PROVE  GrpcCall(q) \in Calls /\ GrpcCall(q).op = q.call.op
<1> DEFINE c == q.call
           u == IF c.op \in {"Push", "Edit"} THEN BuildRequestURL(q.delivery, q.target) ELSE <<>>
           id == IF c.op = "Push" /\ c.j = Empty THEN Uid ELSE c.j
<1>1. c \in Calls /\ u \in Seq(Text) /\ id \in Text
  <2>1. c \in Calls /\ c.j \in Text
    BY DEF IsMessage, Calls
  <2>2. u \in Seq(Text)
    BY BuiltURL, Texts DEF IsMessage
  <2> QED
    BY <2>1, <2>2, Texts
<1>2. GrpcCall(q) = [c EXCEPT !.url = u, !.j = id]
  BY <1>1 DEF GrpcCall, Calls
<1> HIDE DEF c, u, id
<1>3. [c EXCEPT !.url = u, !.j = id] \in Calls /\ [c EXCEPT !.url = u, !.j = id].op = c.op
  BY <1>1 DEF Calls
<1> QED
  BY <1>2, <1>3, Zenon DEF c

-----------------------------------------------------------------------------
(* Every request keeps the tables in order *)

\* A REST request keeps the tables in order, whatever it asks and however storage
\* fails.
LEMMA RestKeeps ==
    ASSUME ApiInv, NEW r, IsRequest(r), NEW f \in StorageFaults
    PROVE  TablesOK(Rest(db, r, f).db)
<1>1. CASE RestStatus(r) # 200
  BY <1>1 DEF Rest, ApiInv
<1>2. CASE RestStatus(r) = 200
  <2>1. Rest(db, r, f).db = Call(db, RestCall(r), f).db
    BY <1>2 DEF Rest
  <2> QED
    BY <2>1, RestDecodes, CallKeeps, Zenon
<1> QED
  BY <1>1, <1>2

\* So does a message of the gRPC service.
LEMMA GrpcKeeps ==
    ASSUME ApiInv, NEW q, IsMessage(q), NEW f \in StorageFaults
    PROVE  TablesOK(Grpc(db, q, f).db)
<1>1. GrpcCall(q) \in Calls /\ GrpcCall(q).op \in Ops
  BY GrpcDecodes DEF IsMessage, Ops
<1>2. TablesOK(Call(db, GrpcCall(q), f).db)
  BY <1>1, CallKeeps, Zenon
<1>3. Grpc(db, q, f).db = db \/ Grpc(db, q, f).db = Call(db, GrpcCall(q), f).db
  BY DEF Grpc
<1> QED
  BY <1>2, <1>3, Zenon DEF ApiInv

\* The calls that a Push can be in the middle of are calls.
LEMMA PushCallsAre == PushCalls \subseteq Calls
<1>1. ASSUME NEW r \in RestRequests["post_jobs"] PROVE RestCall(r) \in Calls
  BY RouteNames, RestRequestsAre, RestDecodes
<1>2. ASSUME NEW q \in GrpcRequests["Push"] PROVE GrpcCall(q) \in Calls
  BY GrpcRequestsAre, GrpcDecodes DEF GrpcOps
<1> QED
  BY <1>1, <1>2, Zenon DEF PushCalls

\* The tables are always in order.
LEMMA ApiInvariant == Spec => []ApiInv
<1>1. Init => ApiInv
  BY DEF Init, ApiInv, TablesOK
<1>2. ApiInv /\ [Next]_vars => ApiInv'
  <2> SUFFICES ASSUME ApiInv, [Next]_vars
               PROVE  TablesOK(db)'
    BY DEF ApiInv
  <2>1. ASSUME NEW route \in DOMAIN Routes, RestStep(route)
        PROVE  TablesOK(db')
    <3>1. PICK r \in RestRequests[route], f \in StorageFaults : db' = Rest(db, r, f).db
      BY <2>1, Zenon DEF RestStep
    <3>2. TablesOK(Rest(db, r, f).db)
      BY RestRequestsAre, RestKeeps
    <3> QED
      BY <3>1, <3>2
  <2>2. ASSUME NEW op \in GrpcOps, GrpcStep(op)
        PROVE  TablesOK(db')
    <3>1. PICK q \in GrpcRequests[op], f \in StorageFaults : db' = Grpc(db, q, f).db
      BY <2>2, Zenon DEF GrpcStep
    <3>2. TablesOK(Grpc(db, q, f).db)
      BY GrpcRequestsAre, GrpcKeeps
    <3> QED
      BY <3>1, <3>2
  <2>3. ASSUME LatePush
        PROVE  TablesOK(db')
    <3>1. PICK c \in PushCalls : ValidJob(c) /\ db' = InsertJob(db, c).db
      BY <2>3, Zenon DEF LatePush
    <3> QED
      BY <3>1, PushCallsAre, InsertKeeps
  <2>4. ASSUME NEW g \in ValidNames, Look(g) \/ LookEnds(g)
        PROVE  TablesOK(db')
    BY <2>4 DEF Look, LookEnds, ApiInv
  <2>5. CASE UNCHANGED vars
    BY <2>5 DEF vars, ApiInv
  <2>6. TablesOK(db')
    BY <2>1, <2>2, <2>3, <2>4, <2>5, Zenon DEF Next
  <2> QED
    BY <2>6 DEF TablesOK
<1> QED
  BY <1>1, <1>2, PTL DEF Spec

-----------------------------------------------------------------------------
(* The two transports *)

\* Calls that agree where an operation looks have the same answer.
LEMMA SameOperation ==
    ASSUME NEW c, NEW d, c.g = d.g
    PROVE  /\ RegisterGroup(db, c) = RegisterGroup(db, d) /\ RemoveGroup(db, c) = RemoveGroup(db, d)
           /\ c.op = "List" /\ d.op = "List" => Read(db, c) = Read(db, d)
           /\ c.j = d.j => Pause(db, c) = Pause(db, d) /\ Delete(db, c) = Delete(db, d)
           /\ c.j = d.j /\ c.exectime = d.exectime => Active(db, c) = Active(db, d)
           /\ c.j = d.j /\ c.url = d.url /\ c.payload = d.payload => Edit(db, c) = Edit(db, d)
<1>1. RegisterGroup(db, c) = RegisterGroup(db, d) /\ RemoveGroup(db, c) = RemoveGroup(db, d)
  BY Zenon DEF RegisterGroup, RemoveGroup
<1>2. c.op = "List" /\ d.op = "List" => Read(db, c) = Read(db, d)
  BY DEF Read
<1>3. c.j = d.j => Pause(db, c) = Pause(db, d) /\ Delete(db, c) = Delete(db, d)
  BY Zenon DEF Pause, Delete
<1>4. c.j = d.j /\ c.exectime = d.exectime => Active(db, c) = Active(db, d)
  BY Zenon DEF Active
<1>5. c.j = d.j /\ c.url = d.url /\ c.payload = d.payload => Edit(db, c) = Edit(db, d)
  BY Zenon DEF Edit
<1> QED
  BY <1>1, <1>2, <1>3, <1>4, <1>5

\* So the queue answers the same for two calls of an operation without a url.
LEMMA SameQuene ==
    ASSUME NEW c, NEW d, c.op = d.op, c.g = d.g,
           c.op \in {"Delete", "Pause", "Active"} => c.j = d.j,
           c.op = "Active" => c.exectime = d.exectime,
           c.op \in {"RegisterGroup", "RemoveGroup", "List", "Delete", "Pause", "Active"}
    PROVE  Quene(db, c) = Quene(db, d)
<1>1. CASE c.op = "RegisterGroup" \/ c.op = "RemoveGroup"
  <2>1. RegisterGroup(db, c) = RegisterGroup(db, d) /\ RemoveGroup(db, c) = RemoveGroup(db, d)
    BY SameOperation, Zenon
  <2> QED
    BY <1>1, <2>1, QueneOf
<1>2. CASE c.op = "List"
  <2>1. Read(db, c) = Read(db, d)
    BY <1>2, SameOperation, Zenon
  <2> QED
    BY <1>2, <2>1, QueneOf
<1>3. CASE c.op = "Delete" \/ c.op = "Pause"
  <2>1. Pause(db, c) = Pause(db, d) /\ Delete(db, c) = Delete(db, d)
    BY <1>3, SameOperation
  <2> QED
    BY <1>3, <2>1, QueneOf
<1>4. CASE c.op = "Active"
  <2>1. Active(db, c) = Active(db, d)
    BY <1>4, SameOperation
  <2> QED
    BY <1>4, <2>1, QueneOf
<1> QED
  BY <1>1, <1>2, <1>3, <1>4

\* A prefix before a target makes a url that splits only if the prefix is one
\* of the two and the target is not empty.
LEMMA Prefixed ==
    ASSUME NEW q, IsMessage(q)
    PROVE  LET url == <<Prefix(q.delivery)>> \o q.target
               built == BuildRequestURL(q.delivery, q.target) IN
           /\ url \in Seq(Text) /\ url # <<>>
           /\ built # <<>> => url = built
           /\ built = <<>> => ~SplitsRequestURL(url)
<1> DEFINE d == q.delivery
           t == q.target
           url == <<Prefix(d)>> \o t
<1>1. t \in Seq(Text) /\ d \in {"HTTP", "GRPC", "OTHER"}
  BY DEF IsMessage, Deliveries
<1>2. /\ Prefix(d) \in {"HTTP@", "GRPC@", "OTHER@"}
      /\ d = "HTTP" => Prefix(d) = "HTTP@"
      /\ d = "GRPC" => Prefix(d) = "GRPC@"
      /\ d = "OTHER" => Prefix(d) = "OTHER@"
  BY <1>1 DEF Prefix
<1>3. Prefix(d) \in Text
  BY <1>2, Texts
<1> HIDE DEF d, t
<1>4. url \in Seq(Text) /\ Len(url) = 1 + Len(t) /\ url[1] = Prefix(d) /\ url # <<>>
  BY <1>1, <1>3
<1>5. BuildRequestURL(d, t) # <<>> => url = BuildRequestURL(d, t)
  BY <1>1, <1>2 DEF BuildRequestURL
<1>6. BuildRequestURL(d, t) = <<>> => d = "OTHER" \/ t = <<>>
  <2>1. SUFFICES ASSUME d # "OTHER", t # <<>> PROVE BuildRequestURL(d, t) # <<>>
    OBVIOUS
  <2>2. BuildRequestURL(d, t) = url
    BY <1>1, <1>2, <2>1 DEF BuildRequestURL
  <2> QED
    BY <1>4, <2>2
<1>7. d = "OTHER" \/ t = <<>> => ~SplitsRequestURL(url)
  <2>1. ASSUME d = "OTHER" PROVE ~(url[1] \in Prefixes)
    BY <1>2, <1>4, <2>1 DEF Prefixes
  <2>2. ASSUME t = <<>> PROVE ~(Len(url) > 1)
    <3>1. Len(url) = 1
      BY <1>4, <2>2
    <3> QED
      BY <3>1
  <2> QED
    BY <2>1, <2>2, Zenon DEF SplitsRequestURL
<1> QED
  BY <1>4, <1>5, <1>6, <1>7, Zenon DEF d, t

\* The REST request that asks for what a message asks for, if it fits.
LEMMA MirrorFacts ==
    ASSUME NEW q, IsMessage(q), q.size = "fits"
    PROVE  LET r == Mirror(q)
               p == [q.call EXCEPT !.op = "fields", !.url = <<Prefix(q.delivery)>> \o q.target] IN
           /\ IsRequest(r) /\ r.route = RouteOf[q.call.op] /\ r.group = q.call.g /\ r.job = q.call.j
           /\ Decoded(r) = p /\ p \in Calls /\ RestStatus(r) = 200
           /\ p.url = <<Prefix(q.delivery)>> \o q.target
<1> DEFINE c == q.call
           url == <<Prefix(q.delivery)>> \o q.target
           p == [c EXCEPT !.op = "fields", !.url = url]
           r == Mirror(q)
<1>1. c \in Calls /\ c.op \in GrpcOps /\ url \in Seq(Text) /\ url # <<>> /\ "fields" \in Text
  BY Prefixed, Texts DEF IsMessage
<1>2. c.g \in Text /\ c.j \in Text
  BY <1>1 DEF Calls
<1> HIDE DEF c, url
<1>3. p \in Calls /\ p.url = url
  BY <1>1 DEF Calls
<1> HIDE DEF p
<1>4. r = Request(RouteOf[c.op], c.g, c.j, "json", p, Empty)
  BY DEF Mirror, c, p, url
<1>5. /\ r.route = RouteOf[c.op] /\ r.group = c.g /\ r.job = c.j /\ r.body = "json" /\ r.fields = p
      /\ r.query = Empty
  BY <1>4 DEF Request
<1>6. r.route \in DOMAIN Routes /\ r.route # "get_history"
  BY <1>1, <1>5, RouteNames DEF RouteOf, GrpcOps
<1> HIDE DEF r
<1>7. IsRequest(r)
  BY <1>2, <1>3, <1>5, <1>6, Texts DEF IsRequest
<1>8. Decoded(r) = p
  BY <1>5 DEF Decoded
<1>9. RestStatus(r) = 200
  <2>1. BodyStatus(r) = 200
    BY <1>5 DEF BodyStatus
  <2>2. Decoded(r).url # <<>>
    BY <1>1, <1>3, <1>8
  <2> QED
    BY <1>6, <2>1, <2>2, Zenon DEF RestStatus
<1> QED
  BY <1>3, <1>5, <1>7, <1>8, <1>9, Zenon DEF c, url, p, r

\* AddJob: both transports make the same call, or both refuse the url.
LEMMA SamePush ==
    ASSUME NEW q, IsMessage(q), q.size = "fits", q.call.op = "Push"
    PROVE  LET built == BuildRequestURL(q.delivery, q.target) IN
           /\ built # <<>> => RestCall(Mirror(q)) = GrpcCall(q)
           /\ built = <<>> => Quene(db, RestCall(Mirror(q))) = Refused(db, "invalid")
<1> DEFINE c == q.call
           r == Mirror(q)
           url == <<Prefix(q.delivery)>> \o q.target
           built == BuildRequestURL(q.delivery, q.target)
           p == [c EXCEPT !.op = "fields", !.url = url]
           id == IF c.j = Empty THEN Uid ELSE c.j
           sent == [c EXCEPT !.url = url, !.j = id]
<1>1. /\ c \in Calls /\ url \in Seq(Text) /\ id \in Text /\ c.op = "Push"
      /\ built # <<>> => url = built
      /\ built = <<>> => ~SplitsRequestURL(url)
  BY Prefixed, Texts DEF IsMessage, Calls
<1>2. /\ Decoded(r) = p /\ r.group = c.g /\ r.route = "post_jobs"
  <2>1. RouteOf["Push"] = "post_jobs"
    BY DEF RouteOf
  <2>2. Decoded(r) = p /\ r.group = c.g /\ r.job = c.j /\ r.route = RouteOf[c.op]
    BY MirrorFacts, Zenon
  <2> HIDE DEF r, p, c
  <2> QED
    BY <1>1, <2>1, <2>2, Zenon
<1>3. RestCall(r) = [p EXCEPT !.op = "Push", !.g = c.g, !.j = IF p.j = Empty THEN Uid ELSE p.j]
  <2> HIDE DEF c, r, p
  <2> QED
    BY <1>2 DEF RestCall, RestJobCall
<1> HIDE DEF c, r, url, built, id
<1>4. p.j = c.j
  BY <1>1 DEF Calls
<1>5. RestCall(r) = [p EXCEPT !.op = "Push", !.g = c.g, !.j = id]
  BY <1>3, <1>4, Zenon DEF id
<1>6. [p EXCEPT !.op = "Push", !.g = c.g, !.j = id] = sent
  BY <1>1 DEF Calls
<1>7. RestCall(r) = sent /\ sent.op = "Push" /\ sent.url = url
  BY <1>1, <1>5, <1>6 DEF Calls
<1>8. ASSUME built # <<>> PROVE GrpcCall(q) = sent
  <2>1. url = built
    BY <1>1, <1>8
  <2>2. GrpcCall(q) = [c EXCEPT !.url = built, !.j = id]
    BY <1>1 DEF GrpcCall, Calls, c, built, id
  <2> QED
    BY <2>1, <2>2, Zenon
<1>9. ASSUME built = <<>> PROVE Quene(db, RestCall(r)) = Refused(db, "invalid")
  <2>1. ~SplitsRequestURL(sent.url)
    BY <1>1, <1>7, <1>9, Zenon
  <2> HIDE DEF sent
  <2>2. Push(db, sent) = Refused(db, "invalid")
    BY <2>1, Zenon DEF Push, ValidJob
  <2> QED
    BY <1>7, <2>2, QueneOf, Zenon
<1> QED
  BY <1>7, <1>8, <1>9, Zenon DEF r, built

\* EditJob likewise.
LEMMA SameEdit ==
    ASSUME NEW q, IsMessage(q), q.size = "fits", q.call.op = "Edit"
    PROVE  LET built == BuildRequestURL(q.delivery, q.target) IN
           /\ built # <<>> => Quene(db, RestCall(Mirror(q))) = Quene(db, GrpcCall(q))
           /\ built = <<>> => Quene(db, RestCall(Mirror(q))) = Refused(db, "invalid")
<1> DEFINE c == q.call
           r == Mirror(q)
           url == <<Prefix(q.delivery)>> \o q.target
           built == BuildRequestURL(q.delivery, q.target)
           p == [c EXCEPT !.op = "fields", !.url = url]
           sent == RestCall(r)
           msg == GrpcCall(q)
<1>1. /\ c \in Calls /\ url \in Seq(Text) /\ c.op = "Edit"
      /\ built # <<>> => url = built
      /\ built = <<>> => ~SplitsRequestURL(url)
  BY Prefixed DEF IsMessage
<1>2. /\ Decoded(r) = p /\ r.group = c.g /\ r.job = c.j /\ r.route = "patch_job"
  <2>1. RouteOf["Edit"] = "patch_job"
    BY DEF RouteOf
  <2>2. Decoded(r) = p /\ r.group = c.g /\ r.job = c.j /\ r.route = RouteOf[c.op]
    BY MirrorFacts, Zenon
  <2> HIDE DEF r, p, c
  <2> QED
    BY <1>1, <2>1, <2>2, Zenon
<1>3. sent = [NoCall EXCEPT !.op = "Edit", !.g = c.g, !.j = c.j, !.url = p.url, !.payload = p.payload]
  <2> HIDE DEF c, r, p
  <2> QED
    BY <1>2 DEF RestCall, RestJobCall
<1>4. msg = [c EXCEPT !.url = built, !.j = c.j]
  BY <1>1 DEF GrpcCall, Calls
<1> HIDE DEF c, r, url, built, sent, msg
<1>5. p.url = url /\ p.payload = c.payload
  BY <1>1 DEF Calls
<1>6. /\ sent.op = "Edit" /\ sent.g = c.g /\ sent.j = c.j /\ sent.url = url
      /\ sent.payload = c.payload
  <2> HIDE DEF p
  <2> QED
    BY <1>3, <1>5, CallForms DEF Calls
<1>7. /\ msg.op = "Edit" /\ msg.g = c.g /\ msg.j = c.j /\ msg.url = built
      /\ msg.payload = c.payload
  BY <1>1, <1>4 DEF Calls
<1>8. ASSUME built # <<>> PROVE Quene(db, sent) = Quene(db, msg)
  <2>1. Edit(db, sent) = Edit(db, msg)
    BY <1>1, <1>6, <1>7, <1>8, SameOperation, Zenon
  <2> QED
    BY <1>6, <1>7, <2>1, QueneOf, Zenon
<1>9. ASSUME built = <<>> PROVE Quene(db, sent) = Refused(db, "invalid")
  <2>1. Edit(db, sent) = Refused(db, "invalid")
    BY <1>1, <1>6, <1>9, Zenon DEF Edit
  <2> QED
    BY <1>6, <2>1, QueneOf, Zenon
<1> QED
  BY <1>8, <1>9, Zenon DEF r, built, sent, msg

\* The other methods: no url is built, and the two calls agree where the
\* operation looks.
LEMMA SameRest ==
    ASSUME NEW q, IsMessage(q), q.size = "fits", q.call.op \notin {"Push", "Edit"}
    PROVE  Quene(db, RestCall(Mirror(q))) = Quene(db, GrpcCall(q))
<1> DEFINE c == q.call
           r == Mirror(q)
           url == <<Prefix(q.delivery)>> \o q.target
           p == [c EXCEPT !.op = "fields", !.url = url]
           sent == RestCall(r)
           msg == GrpcCall(q)
<1>1. /\ c \in Calls /\ url \in Seq(Text)
      /\ c.op \in {"RegisterGroup", "RemoveGroup", "Delete", "Pause", "Active", "List"}
  BY Prefixed DEF IsMessage, GrpcOps
<1>2. /\ Decoded(r) = p /\ r.group = c.g /\ r.job = c.j /\ r.route = RouteOf[c.op]
  BY MirrorFacts, Zenon
<1>3. msg = [c EXCEPT !.url = <<>>, !.j = c.j]
  BY <1>1 DEF GrpcCall, Calls
<1> HIDE DEF c, r, url, sent, msg
<1>4. p.g = c.g /\ p.exectime = c.exectime
  BY <1>1 DEF Calls
<1> HIDE DEF p
<1>5. msg.op = c.op /\ msg.g = c.g /\ msg.j = c.j /\ msg.exectime = c.exectime
  BY <1>1, <1>3 DEF Calls
<1>6. CASE c.op \in {"RegisterGroup", "RemoveGroup"}
  <2>1. sent = IF c.op = "RegisterGroup" THEN [NoCall EXCEPT !.op = "RegisterGroup", !.g = p.g]
               ELSE [NoCall EXCEPT !.op = "RemoveGroup", !.g = r.group]
    BY <1>2, <1>6 DEF RestCall, RestGroupCall, RouteOf, sent
  <2>2. sent.op = c.op /\ sent.g = c.g
    BY <1>2, <1>4, <1>6, <2>1, CallForms DEF Calls
  <2>3. Quene(db, sent) = Quene(db, msg)
    BY <1>5, <1>6, <2>2, SameQuene
  <2> QED
    BY <2>3, Zenon DEF r, sent, msg
<1>7. CASE c.op = "List"
  <2>1. sent = [NoCall EXCEPT !.op = "List", !.g = r.group]
    BY <1>2, <1>7 DEF RestCall, RestReadCall, RouteOf, sent
  <2>2. sent.op = "List" /\ sent.g = c.g
    BY <1>2, <2>1, CallForms DEF Calls
  <2>3. Quene(db, sent) = Quene(db, msg)
    BY <1>5, <1>7, <2>2, SameQuene
  <2> QED
    BY <2>3, Zenon DEF r, sent, msg
<1>8. CASE c.op \in {"Delete", "Pause"}
  <2>1. sent = IF c.op = "Delete" THEN [NoCall EXCEPT !.op = "Delete", !.g = r.group, !.j = r.job]
               ELSE [NoCall EXCEPT !.op = "Pause", !.g = r.group, !.j = r.job]
    BY <1>2, <1>8 DEF RestCall, RestJobCall, RouteOf, sent
  <2>2. sent.op = c.op /\ sent.g = c.g /\ sent.j = c.j
    BY <1>2, <1>8, <2>1, CallForms DEF Calls
  <2>3. Quene(db, sent) = Quene(db, msg)
    BY <1>5, <1>8, <2>2, SameQuene
  <2> QED
    BY <2>3, Zenon DEF r, sent, msg
<1>9. CASE c.op = "Active"
  <2>1. sent = [NoCall EXCEPT !.op = "Active", !.g = r.group, !.j = r.job, !.exectime = p.exectime]
    BY <1>2, <1>9 DEF RestCall, RestJobCall, RouteOf, sent
  <2>2. sent.op = c.op /\ sent.g = c.g /\ sent.j = c.j /\ sent.exectime = c.exectime
    BY <1>2, <1>4, <1>9, <2>1, CallForms DEF Calls
  <2>3. Quene(db, sent) = Quene(db, msg)
    BY <1>5, <1>9, <2>2, SameQuene
  <2> QED
    BY <2>3, Zenon DEF r, sent, msg
<1> QED
  BY <1>1, <1>6, <1>7, <1>8, <1>9 DEF r, sent, msg

\* A url that splits is put together again from what parseRequestURL makes of it.
LEMMA SplitAndBuild ==
    ASSUME NEW u \in Seq(Text), SplitsRequestURL(u)
    PROVE  LET shown == ParseRequestURL(u) IN
           BuildRequestURL(shown.delivery, shown.target) = u /\ u # <<>>
<1>1. Len(u) > 1 /\ (u[1] = "HTTP@" \/ u[1] = "GRPC@")
  BY Zenon DEF SplitsRequestURL, Prefixes
<1>2. u # <<>> /\ Head(u) = u[1] /\ Tail(u) # <<>> /\ Tail(u) \in Seq(Text)
  <2>1. Len(u) > 1
    BY <1>1, Zenon
  <2>2. u # <<>> /\ Head(u) = u[1]
    BY <2>1
  <2>3. Tail(u) \in Seq(Text) /\ Len(Tail(u)) = Len(u) - 1
    BY <2>2
  <2>4. Tail(u) # <<>>
    <3>1. Len(u) \in Nat /\ Len(u) - 1 # 0
      BY <2>1
    <3>2. Len(Tail(u)) # 0
      BY <2>3, <3>1, Zenon
    <3>3. Len(<<>>) = 0
      OBVIOUS
    <3> QED
      BY <3>2, <3>3, Zenon
  <2> QED
    BY <2>2, <2>3, <2>4
<1>3. \A x \in Text : x = u[1] => <<x>> \o Tail(u) = u
  BY <1>1, <1>2
<1>4. "HTTP@" \in Text /\ "GRPC@" \in Text
  BY Texts
<1> DEFINE t == Tail(u)
<1> HIDE DEF t
<1>5. CASE u[1] = "GRPC@"
  <2>1. ParseRequestURL(u) = [delivery |-> "GRPC", target |-> t]
    BY <1>2, <1>5 DEF ParseRequestURL, t
  <2>2. BuildRequestURL("GRPC", t) = <<"GRPC@">> \o t
    BY <1>2 DEF BuildRequestURL, t
  <2>3. ParseRequestURL(u).delivery = "GRPC" /\ ParseRequestURL(u).target = t
    BY <2>1
  <2>4. <<"GRPC@">> \o t = u
    BY <1>3, <1>4, <1>5, Zenon DEF t
  <2> QED
    BY <1>2, <2>2, <2>3, <2>4, Zenon
<1>6. CASE u[1] = "HTTP@"
  <2>1. ParseRequestURL(u) = [delivery |-> "HTTP", target |-> t]
    BY <1>2, <1>6 DEF ParseRequestURL, t
  <2>2. BuildRequestURL("HTTP", t) = <<"HTTP@">> \o t
    BY <1>2 DEF BuildRequestURL, t
  <2>3. ParseRequestURL(u).delivery = "HTTP" /\ ParseRequestURL(u).target = t
    BY <2>1
  <2>4. <<"HTTP@">> \o t = u
    BY <1>3, <1>4, <1>6, Zenon DEF t
  <2> QED
    BY <1>2, <2>2, <2>3, <2>4, Zenon
<1> QED
  BY <1>1, <1>5, <1>6

\* Whatever message the service gets, if it fits, the REST request that asks for
\* the same has the same effect and error, and answers the same id and jobs.
Agree(q, f) ==
    LET a == Rest(db, Mirror(q), f)
        b == Grpc(db, q, f) IN
    /\ a.db = b.db
    /\ \E e \in Errs : a.status = Status(e) /\ b.code = Code(e)
    /\ q.call.op = "Push" /\ b.code = "OK" => a.val = b.val
    /\ q.call.op = "List" /\ b.code = "OK" =>
           /\ \A row \in a.val : \E info \in b.val : SameJob(info, row)
           /\ \A info \in b.val : \E row \in a.val : SameJob(info, row)

\* A job of a list shows what is stored.
LEMMA RowFacts ==
    ASSUME ApiInv, NEW g, NEW row \in List(db, g)
    PROVE  /\ Owns(db, g, row.id) /\ row.job = db.jobs[row.id]
           /\ row.id \in ValidNames /\ g \in ValidNames
           /\ row.job \in Def /\ Deliverable(row.job) /\ row.job.group = g
           /\ row.job.url \in Seq(Text) /\ SplitsRequestURL(row.job.url)
<1>1. PICK j \in {k \in ValidNames : Owns(db, g, k)} : row = [id |-> j, job |-> db.jobs[j]]
  BY Zenon DEF List
<1>2. row.id = j /\ row.job = db.jobs[j] /\ Owns(db, g, j)
  BY <1>1
<1>3. /\ j \in ValidNames /\ db.jobs[j] \in Def /\ Deliverable(db.jobs[j])
      /\ db.jobs[j].group = g /\ g \in ValidNames
  BY <1>2, OwnedFacts DEF ApiInv
<1>4. db.jobs[j].url \in Seq(Text) /\ SplitsRequestURL(db.jobs[j].url)
  BY <1>3 DEF Def, Deliverable
<1> QED
  BY <1>2, <1>3, <1>4, Zenon

\* The fields of JobInfo.
LEMMA InfoFacts ==
    ASSUME NEW row
    PROVE  LET info == JobInfo(row)
               shown == ParseRequestURL(row.job.url) IN
           /\ info.id = row.id /\ \A f \in Told : info[f] = row.job[f]
           /\ info.delivery = shown.delivery /\ info.target = shown.target
           /\ info.payload = row.job.payload
BY DEF JobInfo, Told

\* JobInfo shows the job of its row.
LEMMA InfoIsRow ==
    ASSUME ApiInv, NEW g, NEW row \in List(db, g)
    PROVE  SameJob(JobInfo(row), row)
<1>1. row.job.url \in Seq(Text) /\ SplitsRequestURL(row.job.url)
  BY RowFacts
<1> QED
  BY <1>1, InfoFacts, SplitAndBuild, Zenon DEF SameJob

\* A call that answers no error is one whose storage works.
LEMMA NoErrorNoFault ==
    ASSUME NEW tab, NEW c, NEW f, Call(tab, c, f).err = "nil"
    PROVE  Call(tab, c, f) = Quene(tab, c)
BY DEF Call, Refused

\* The codes of the errors differ.
LEMMA CodeOK == \A e \in Errs : Code(e) = "OK" => e = "nil"
BY DEF Code, Errs

\* Every message that fits agrees with its mirror.
LEMMA AnyMessageAgrees ==
    ASSUME ApiInv, NEW q, IsMessage(q), q.size = "fits", NEW f \in StorageFaults
    PROVE  Agree(q, f)
<1> DEFINE r == Mirror(q)
           built == BuildRequestURL(q.delivery, q.target)
           c == RestCall(r)
           d == GrpcCall(q)
           x == Call(db, c, f)
           y == Call(db, d, f)
           a == Rest(db, r, f)
           b == Grpc(db, q, f)
           asked == q.call.op \in {"Push", "Edit"}
<1>1. IsRequest(r) /\ RestStatus(r) = 200 /\ r.route = RouteOf[q.call.op]
  BY MirrorFacts, Zenon
<1>2. Answer(x)
  <2> HIDE DEF r
  <2>1. RestCall(r).op \in Ops
    BY <1>1, RestDecodes
  <2> QED
    BY <2>1, CallKeeps
<1>3. a = [status |-> Status(x.err), db |-> x.db,
           val |-> IF x.err = "nil" THEN RestValue(r, c, x.val) ELSE {}]
  BY <1>1, Zenon DEF Rest
<1>4. CASE asked /\ built = <<>>
  <2>1. Quene(db, c) = Refused(db, "invalid")
    BY <1>4, SamePush, SameEdit, Zenon
  <2>2. x = Refused(db, "invalid")
    BY <2>1 DEF Call, Refused
  <2>3. b = [code |-> Code("invalid"), val |-> {}, db |-> db]
    BY <1>4, Zenon DEF Grpc
  <2>4. x.err = "invalid" /\ x.db = db /\ "invalid" \in Errs /\ Code("invalid") # "OK"
    BY <2>2 DEF Refused, Errs, Code
  <2> HIDE DEF x, a, b
  <2>5. a.status = Status("invalid") /\ a.db = db /\ b.code = Code("invalid") /\ b.db = db
    BY <1>3, <2>3, <2>4
  <2> QED
    BY <2>4, <2>5, Zenon DEF Agree, r, a, b
<1>5. CASE ~(asked /\ built = <<>>)
  <2>1. Quene(db, c) = Quene(db, d) /\ (q.call.op = "Push" => c = d)
    BY <1>5, SamePush, SameEdit, SameRest, Zenon
  <2>2. x = y
    BY <2>1, Zenon DEF Call
  <2>3. b = [code |-> Code(y.err), db |-> y.db, val |-> IF y.err = "nil" THEN GrpcValue(d, y.val) ELSE {}]
    BY <1>5, Zenon DEF Grpc
  <2> HIDE DEF x, y, r, a, b, c, d
  <2>4. /\ a.status = Status(x.err) /\ a.db = x.db /\ b.code = Code(x.err) /\ b.db = x.db
        /\ x.err = "nil" => a.val = RestValue(r, c, x.val) /\ b.val = GrpcValue(d, x.val)
    BY <1>3, <2>2, <2>3
  <2>5. x.err \in Errs
    BY <1>2, Zenon DEF Answer
  <2>6. b.code = "OK" => x.err = "nil"
    BY <2>4, <2>5, CodeOK
  <2>7. ASSUME q.call.op = "Push", b.code = "OK"
        PROVE  a.val = b.val
    <3>1. r.route = "post_jobs" /\ d.op = "Push" /\ c = d
      <4>1. d.op = q.call.op
        BY GrpcDecodes DEF d
      <4> QED
        BY <1>1, <2>1, <2>7, <4>1 DEF RouteOf
    <3>2. RestValue(r, c, x.val) = c.j /\ GrpcValue(d, x.val) = d.j
      BY <3>1 DEF RestValue, GrpcValue
    <3> QED
      BY <2>4, <2>6, <2>7, <3>1, <3>2
  <2>8. ASSUME q.call.op = "List", b.code = "OK"
        PROVE  /\ \A row \in a.val : \E info \in b.val : SameJob(info, row)
               /\ \A info \in b.val : \E row \in a.val : SameJob(info, row)
    <3>1. r.route = "get_jobs" /\ d.op = "List"
      <4>1. d.op = q.call.op
        BY GrpcDecodes DEF d
      <4> QED
        BY <1>1, <2>8, <4>1 DEF RouteOf
    <3>2. x.err = "nil"
      BY <2>6, <2>8
    <3>3. y = Quene(db, d)
      BY <2>2, <3>2, NoErrorNoFault DEF y
    <3>4. Quene(db, d) = Done(List(db, d.g), db)
      <4>1. Quene(db, d) = Read(db, d)
        BY <3>1, QueneOf
      <4> QED
        BY <3>1, <4>1 DEF Read
    <3>5. x.val = List(db, d.g)
      BY <2>2, <3>3, <3>4 DEF Done
    <3>6. a.val = List(db, d.g) /\ b.val = {JobInfo(row) : row \in List(db, d.g)}
      <4>1. RestValue(r, c, x.val) = x.val
        BY <3>1 DEF RestValue
      <4>2. GrpcValue(d, x.val) = {JobInfo(row) : row \in x.val}
        BY <3>1 DEF GrpcValue
      <4> QED
        BY <2>4, <3>2, <3>5, <4>1, <4>2
    <3> QED
      BY <3>6, InfoIsRow, Zenon
  <2> QED
    BY <2>4, <2>5, <2>7, <2>8, Zenon DEF Agree, r, a, b
<1> QED
  BY <1>4, <1>5, Zenon

\* A message that does not fit is refused by REST and changes nothing.
LEMMA OverIsRefused ==
    ASSUME NEW q, q.size = "over", q.call.op \in {"Push", "Edit"}, NEW f
    PROVE  Rest(db, Mirror(q), f).status = 413 /\ Rest(db, Mirror(q), f).db = db
<1> DEFINE r == Mirror(q)
<1>1. r.body = "toobig" /\ r.route = RouteOf[q.call.op]
  BY DEF Mirror, Request
<1> HIDE DEF r
<1>2. Routes[r.route]
  BY <1>1 DEF RouteOf, Routes
<1>3. BodyStatus(r) = 413
  BY <1>1, <1>2 DEF BodyStatus
<1>4. RestStatus(r) = 413
  BY <1>3 DEF RestStatus
<1>5. Rest(db, r, f) = [status |-> 413, val |-> {}, db |-> db]
  <2>1. RestStatus(r) # 200
    BY <1>4
  <2> QED
    BY <1>4, <2>1, Zenon DEF Rest
<1> QED
  BY <1>5 DEF r

\* Only AddJob and EditJob have messages that do not fit.
LEMMA OverIsAddressed ==
    ASSUME NEW op \in GrpcOps, NEW q \in GrpcRequests[op], q.size = "over"
    PROVE  op \in {"Push", "Edit"}
<1> SUFFICES ASSUME op \notin {"Push", "Edit"} PROVE FALSE
  OBVIOUS
<1>1. \/ \E g \in Names, j \in Names, e \in ExecTimes : q = Plain(ActiveMessage(g, j, e))
      \/ \E g \in Names, j \in Names : q = Plain(NameMessage(op, g, j))
  BY DEF GrpcRequests
<1>2. \A c : Plain(c).size = "fits"
  BY DEF Plain, Message
<1> QED
  BY <1>1, <1>2

\* REST and gRPC have the same effect, error, id and jobs in every state that is
\* reached, also when storage fails (grpc.go and httpv1/http.go check and convert
\* on their own).
THEOREM TransportsMirror == Spec => []TransportsAgree
<1>1. ASSUME ApiInv PROVE TransportsAgree
  <2>1. ASSUME NEW op \in GrpcOps, NEW q \in GrpcRequests[op], NEW f \in StorageFaults
        PROVE  /\ IsMessage(q) /\ q.call.op = op /\ q.size \in {"fits", "over"}
               /\ q.size = "fits" => Agree(q, f)
               /\ q.size = "over" =>
                     Rest(db, Mirror(q), f).status = 413 /\ Rest(db, Mirror(q), f).db = db
    <3>1. IsMessage(q) /\ q.call.op = op /\ q.size \in {"fits", "over"}
      BY GrpcRequestsAre, Zenon DEF IsMessage, Sizes
    <3>2. q.size = "fits" => Agree(q, f)
      BY <1>1, <3>1, AnyMessageAgrees
    <3>3. q.size = "over" =>
              Rest(db, Mirror(q), f).status = 413 /\ Rest(db, Mirror(q), f).db = db
      BY <3>1, OverIsAddressed, OverIsRefused
    <3> QED
      BY <3>1, <3>2, <3>3, Zenon
  <2> SUFFICES ASSUME NEW op \in GrpcOps, NEW q \in GrpcRequests[op], NEW f \in StorageFaults
               PROVE  LET a == Rest(db, Mirror(q), f)
                          b == Grpc(db, q, f) IN
                      IF q.size = "over" THEN a.status = 413 /\ a.db = db
                      ELSE /\ a.db = b.db
                           /\ \E e \in Errs : a.status = Status(e) /\ b.code = Code(e)
                           /\ op = "Push" /\ b.code = "OK" => a.val = b.val
                           /\ op = "List" /\ b.code = "OK" =>
                                  /\ \A row \in a.val : \E info \in b.val : SameJob(info, row)
                                  /\ \A info \in b.val : \E row \in a.val : SameJob(info, row)
    BY Zenon DEF TransportsAgree
  <2>2. CASE q.size = "over"
    <3>1. Rest(db, Mirror(q), f).status = 413 /\ Rest(db, Mirror(q), f).db = db
      BY <2>1, <2>2
    <3> QED
      BY <2>2, <3>1, Zenon
  <2>3. CASE q.size # "over"
    <3>1. Agree(q, f) /\ q.call.op = op
      BY <2>1, <2>3
    <3> QED
      BY <2>3, <3>1, Zenon DEF Agree
  <2> QED
    BY <2>2, <2>3, Zenon
<1> QED
  BY <1>1, ApiInvariant, PTL

-----------------------------------------------------------------------------
(* What is stored *)

\* Every stored definition can be delivered and scheduled again, whichever calls
\* of whichever transport wrote it (Push and Edit validate, Active sets a time).
THEOREM StoredCorrect == Spec => []StoredIsDeliverable
<1>1. ApiInv => StoredIsDeliverable
  BY Zenon DEF ApiInv, TablesOK, Deliverable, StoredIsDeliverable
<1> QED
  BY <1>1, ApiInvariant, PTL

\* A request with an empty JSON body is answered with what the queue answers,
\* when storage works.
LEMMA Plainly ==
    ASSUME NEW route \in {"get_status", "get_jobs", "post_pause", "delete_job"}, NEW g, NEW j
    PROVE  LET c == RestCall(Ask(route, g, j))
               a == Rest(db, Ask(route, g, j), "none") IN
           /\ a.status = Status(Quene(db, c).err)
           /\ Quene(db, c).err = "nil" /\ route \in {"get_status", "get_jobs"} =>
                  a.val = Quene(db, c).val
<1> DEFINE r == Ask(route, g, j)
           c == RestCall(r)
           x == Quene(db, c)
<1>1. r.route = route /\ r.body = "json"
  BY DEF Ask, Request
<1> HIDE DEF r
<1>2. BodyStatus(r) = 200
  BY <1>1 DEF BodyStatus
<1>3. RestStatus(r) = 200
  BY <1>1, <1>2 DEF RestStatus
<1>4. Call(db, c, "none") = x
  BY Zenon DEF Call
<1> HIDE DEF c, x
<1>5. Rest(db, r, "none") = [status |-> Status(x.err), db |-> x.db,
                             val |-> IF x.err = "nil" THEN RestValue(r, c, x.val) ELSE {}]
  BY <1>3, <1>4, Zenon DEF Rest, c
<1>6. route \in {"get_status", "get_jobs"} => RestValue(r, c, x.val) = x.val
  BY <1>1 DEF RestValue
<1>7. /\ Rest(db, r, "none").status = Status(x.err)
      /\ x.err = "nil" => Rest(db, r, "none").val = RestValue(r, c, x.val)
  BY <1>5
<1> QED
  BY <1>6, <1>7, Zenon DEF r, c, x

\* What the two transports answer to a request for a group's jobs.
LEMMA ListAnswers ==
    ASSUME NEW g
    PROVE  RestList(g) = List(db, g) /\ GrpcList(g) = {JobInfo(row) : row \in List(db, g)}
<1>1. RestList(g) = List(db, g)
  <2> DEFINE r == Ask("get_jobs", g, Empty)
             c == RestCall(r)
  <2>1. r.route = "get_jobs" /\ r.group = g
    BY DEF Ask, Request
  <2> HIDE DEF r
  <2>2. c = [NoCall EXCEPT !.op = "List", !.g = g]
    BY <2>1 DEF RestCall, RestReadCall
  <2>3. c.op = "List" /\ c.g = g
    BY <2>2, CallForms DEF Calls
  <2> HIDE DEF c
  <2>4. Quene(db, c) = Read(db, c)
    BY <2>3, QueneOf
  <2>5. Read(db, c) = Done(List(db, g), db)
    BY <2>3 DEF Read
  <2>6. Quene(db, c).err = "nil" /\ Quene(db, c).val = List(db, g)
    BY <2>4, <2>5 DEF Done
  <2>7. Quene(db, c).err = "nil" => Rest(db, r, "none").val = Quene(db, c).val
    BY Plainly, Zenon DEF r, c
  <2> QED
    BY <2>6, <2>7, Zenon DEF RestList, r
<1>2. GrpcList(g) = {JobInfo(row) : row \in List(db, g)}
  <2> DEFINE m == NameMessage("List", g, Empty)
             q == Plain(m)
             c == GrpcCall(q)
             x == Quene(db, c)
  <2>1. m = [NoCall EXCEPT !.op = "List", !.g = g, !.j = Empty]
    BY DEF NameMessage
  <2>2. m.op = "List" /\ m.g = g
    BY <2>1, CallForms DEF Calls
  <2>3. q.call = m
    BY DEF Plain, Message
  <2> HIDE DEF q
  <2>4. c = [m EXCEPT !.url = <<>>, !.j = m.j]
    BY <2>1, <2>2, <2>3, CallForms DEF GrpcCall, Calls
  <2> HIDE DEF m
  <2>5. c.op = "List" /\ c.g = g
    BY <2>1, <2>2, <2>4, CallForms DEF Calls
  <2>6. Grpc(db, q, "none") = [code |-> Code(x.err), db |-> x.db,
                               val |-> IF x.err = "nil" THEN GrpcValue(c, x.val) ELSE {}]
    <3>1. Call(db, c, "none") = x
      BY Zenon DEF Call
    <3>2. ~(q.call.op \in {"Push", "Edit"})
      BY <2>2, <2>3
    <3> HIDE DEF x
    <3> QED
      BY <3>1, <3>2, Zenon DEF Grpc, c
  <2> HIDE DEF c
  <2>7. x.err = "nil" /\ x.val = List(db, g)
    <3>1. x = Read(db, c)
      BY <2>5, QueneOf
    <3>2. Read(db, c) = Done(List(db, g), db)
      BY <2>5 DEF Read
    <3> QED
      BY <3>1, <3>2 DEF Done
  <2> HIDE DEF x
  <2>8. GrpcValue(c, x.val) = {JobInfo(row) : row \in x.val}
    BY <2>5 DEF GrpcValue
  <2>9. Grpc(db, q, "none").val = GrpcValue(c, x.val)
    BY <2>6, <2>7
  <2> QED
    BY <2>7, <2>8, <2>9, Zenon DEF GrpcList, q, m
<1> QED
  BY <1>1, <1>2

\* Writing back what ListJobs showed changes nothing: EditJob puts the stored
\* url together again and finds the job in the group that listed it.
THEOREM ListedIsStored == Spec => []ListRoundTrip
<1>1. ASSUME ApiInv, NEW g \in ValidNames, NEW row \in List(db, g)
      PROVE  LET info == JobInfo(row)
                 q == Message(EditMessage(g, info.id, info.payload), info.delivery,
                              info.target, "fits") IN
             Grpc(db, q, "none") = [code |-> "OK", val |-> {}, db |-> db]
  <2> DEFINE j == row.id
             old == db.jobs[j]
             info == JobInfo(row)
             m == EditMessage(g, info.id, info.payload)
             q == Message(m, info.delivery, info.target, "fits")
             c == GrpcCall(q)
  <2>1. /\ Owns(db, g, j) /\ old = row.job /\ j \in ValidNames /\ old \in Def
        /\ old.url \in Seq(Text) /\ SplitsRequestURL(old.url)
    BY <1>1, RowFacts, Zenon
  <2>2. info.id = j /\ info.payload = old.payload /\ SameJob(info, row)
    BY <1>1, <2>1, InfoFacts, InfoIsRow, Zenon
  <2>3. BuildRequestURL(info.delivery, info.target) = old.url /\ old.url # <<>>
    BY <2>1, <2>2, SplitAndBuild, Zenon DEF SameJob
  <2>4. old.payload \in Text
    BY <2>1 DEF Def
  <2> HIDE DEF j, old, info
  <2>5. /\ m.op = "Edit" /\ m.g = g /\ m.j = j /\ m.payload = old.payload
    BY <2>2, CallForms DEF EditMessage, Calls
  <2>6. m \in Calls
    <3>1. g \in Text /\ info.id \in Text /\ info.payload \in Text
      BY <2>1, <2>2, <2>4, Texts
    <3> QED
      BY <3>1, MessagesMake, Zenon DEF Makes
  <2>7. q.call = m /\ q.delivery = info.delivery /\ q.target = info.target
    BY DEF Message
  <2> HIDE DEF m, q
  <2>8. c = [m EXCEPT !.url = old.url, !.j = m.j]
    BY <2>3, <2>5, <2>6, <2>7 DEF GrpcCall, Calls
  <2> HIDE DEF c
  <2>9. c.op = "Edit" /\ c.g = g /\ c.j = j /\ c.url = old.url /\ c.payload = old.payload
    BY <2>5, <2>6, <2>8 DEF Calls
  <2>10. Edit(db, c) = Done({}, SetJob(db, j, [old EXCEPT !.url = old.url, !.payload = old.payload]))
    BY <2>1, <2>9, Zenon DEF Edit, old
  <2>11. [old EXCEPT !.url = old.url, !.payload = old.payload] = old
    BY <2>1 DEF Def
  <2>12. SetJob(db, j, old) = db
    <3>1. /\ db = [groups |-> db.groups, jobs |-> db.jobs]
          /\ db.jobs \in [ValidNames -> Def \cup {NoJob}]
      BY <1>1 DEF ApiInv, TablesOK
    <3>2. [db.jobs EXCEPT ![j] = old] = db.jobs
      BY <2>1, <3>1 DEF old
    <3>3. SetJob(db, j, old) = [groups |-> db.groups, jobs |-> [db.jobs EXCEPT ![j] = old]]
      BY <3>1 DEF SetJob
    <3> QED
      BY <3>1, <3>2, <3>3, Zenon
  <2>13. Call(db, c, "none") = Done({}, db)
    <3>1. Quene(db, c) = Edit(db, c)
      BY <2>9, QueneOf
    <3> QED
      BY <2>10, <2>11, <2>12, <3>1, Zenon DEF Call
  <2>14. Call(db, c, "none").err = "nil" /\ Call(db, c, "none").db = db
    BY <2>13 DEF Done
  <2>15. \A v : GrpcValue(c, v) = {}
    BY <2>9 DEF GrpcValue
  <2>16. Code("nil") = "OK"
    BY DEF Code
  <2> DEFINE x == Call(db, c, "none")
  <2>17. Grpc(db, q, "none") = [code |-> Code(x.err), db |-> x.db,
                                val |-> IF x.err = "nil" THEN GrpcValue(c, x.val) ELSE {}]
    BY <2>3, <2>5, <2>7, Zenon DEF Grpc, c
  <2> HIDE DEF x
  <2>18. Grpc(db, q, "none") = [code |-> "OK", val |-> {}, db |-> db]
    BY <2>14, <2>15, <2>16, <2>17 DEF x
  <2> QED
    BY <2>18, Zenon DEF q, m, info
<1>2. ASSUME ApiInv PROVE ListRoundTrip
  <2> SUFFICES ASSUME NEW g \in ValidNames, NEW info \in GrpcList(g)
               PROVE  Grpc(db, Message(EditMessage(g, info.id, info.payload), info.delivery,
                                       info.target, "fits"), "none")
                        = [code |-> "OK", val |-> {}, db |-> db]
    BY Zenon DEF ListRoundTrip
  <2>1. PICK row \in List(db, g) : info = JobInfo(row)
    BY ListAnswers
  <2> QED
    BY <1>1, <1>2, <2>1, Zenon
<1> QED
  BY <1>2, ApiInvariant, PTL

-----------------------------------------------------------------------------
(* What the counters count *)

Stored == {j \in ValidNames : db.jobs[j] # NoJob}
StoredActive == {j \in Stored : db.jobs[j].active}

\* What GET /v1/status answers.
LEMMA StatusAnswers ==
    LET v == Rest(db, Ask("get_status", Empty, Empty), "none").val IN
    v.active = Cardinality(StoredActive) /\ v.paused = Cardinality(Stored \ StoredActive)
<1> DEFINE r == Ask("get_status", Empty, Empty)
           c == RestCall(r)
<1>1. r.route = "get_status"
  BY DEF Ask, Request
<1> HIDE DEF r
<1>2. c = [NoCall EXCEPT !.op = "Stats"]
  BY <1>1 DEF RestCall, RestReadCall
<1>3. c.op = "Stats"
  BY <1>2, CallForms DEF Calls
<1> HIDE DEF c
<1>4. Quene(db, c) = Read(db, c)
  BY <1>3, QueneOf
<1>5. Read(db, c) = Done([active |-> Cardinality(StoredActive),
                          paused |-> Cardinality(Stored \ StoredActive)], db)
  BY <1>3 DEF Read, Stored, StoredActive
<1>6. /\ Quene(db, c).val = [active |-> Cardinality(StoredActive),
                             paused |-> Cardinality(Stored \ StoredActive)]
      /\ Quene(db, c).err = "nil"
  BY <1>4, <1>5 DEF Done
<1>7. Quene(db, c).err = "nil" => Rest(db, r, "none").val = Quene(db, c).val
  BY Plainly, Zenon DEF r, c
<1>8. /\ Rest(db, r, "none").val.active = Cardinality(StoredActive)
      /\ Rest(db, r, "none").val.paused = Cardinality(Stored \ StoredActive)
  BY <1>6, <1>7
<1> QED
  BY <1>8, Zenon DEF r

\* Pause and delete succeed for a job under the name of its group.
LEMMA OwnedAnswers ==
    ASSUME NEW g, NEW j, Owns(db, g, j), NEW route \in {"post_pause", "delete_job"}
    PROVE  Rest(db, Ask(route, g, j), "none").status = 200
<1> DEFINE r == Ask(route, g, j)
           c == RestCall(r)
<1>1. r.route = route /\ r.group = g /\ r.job = j
  BY DEF Ask, Request
<1> HIDE DEF r
<1>2. c = [NoCall EXCEPT !.op = IF route = "post_pause" THEN "Pause" ELSE "Delete", !.g = g, !.j = j]
  BY <1>1 DEF RestCall, RestJobCall
<1>3. c.op = (IF route = "post_pause" THEN "Pause" ELSE "Delete") /\ c.g = g /\ c.j = j
  BY <1>2, CallForms DEF Calls
<1> HIDE DEF c
<1>4. Quene(db, c) = IF route = "post_pause" THEN Pause(db, c) ELSE Delete(db, c)
  BY <1>3, QueneOf
<1>5. \E v, x : Quene(db, c) = Done(v, x)
  BY <1>3, <1>4, Zenon DEF Pause, Delete
<1>6. Quene(db, c).err = "nil" /\ Status("nil") = 200
  BY <1>5 DEF Done, Status
<1>7. Rest(db, r, "none").status = Status(Quene(db, c).err)
  <2>1. route \in {"get_status", "get_jobs", "post_pause", "delete_job"}
    OBVIOUS
  <2> QED
    BY <2>1, Plainly DEF r, c
<1>8. Rest(db, r, "none").status = 200
  BY <1>6, <1>7
<1> QED
  BY <1>8, Zenon DEF r

\* The jobs that the lists of all names show are the stored ones.
LEMMA ListedAreStored ==
    ASSUME ApiInv
    PROVE  UNION {{row.id : row \in List(db, g)} : g \in ValidNames} = Stored
<1>1. ASSUME NEW g \in ValidNames, NEW row \in List(db, g) PROVE row.id \in Stored
  <2>1. Owns(db, g, row.id) /\ row.id \in ValidNames
    BY <1>1, RowFacts
  <2> QED
    BY <2>1, Zenon DEF Owns, Stored
<1>2. ASSUME NEW j \in Stored
      PROVE  \E g \in ValidNames : \E row \in List(db, g) : row.id = j
  <2> DEFINE g == db.jobs[j].group
             row == [id |-> j, job |-> db.jobs[j]]
  <2>1. j \in ValidNames /\ db.jobs[j] # NoJob /\ Owns(db, g, j)
    BY <1>2, Zenon DEF Stored, Owns
  <2>2. g \in ValidNames
    BY <2>1, OwnedFacts DEF ApiInv
  <2>3. row \in List(db, g) /\ row.id = j
    BY <2>1 DEF List
  <2> QED
    BY <2>2, <2>3, Zenon
<1>3. \A j : j \in UNION {{row.id : row \in List(db, g)} : g \in ValidNames} <=>
             \E g \in ValidNames : \E row \in List(db, g) : row.id = j
  <2> DEFINE Ids(g) == {row.id : row \in List(db, g)}
  <2>1. \A g, j : j \in Ids(g) <=> \E row \in List(db, g) : row.id = j
    OBVIOUS
  <2>2. \A j : j \in UNION {Ids(g) : g \in ValidNames} <=> \E g \in ValidNames : j \in Ids(g)
    <3> HIDE DEF Ids
    <3> QED
      OBVIOUS
  <2> QED
    BY <2>1, <2>2
<1> QED
  BY <1>1, <1>2, <1>3, Zenon

\* The counters of /v1/status count the jobs that the lists show, those of groups
\* that are gone too, and each can be paused and deleted.
THEOREM AllInReach == Spec => []NothingOutOfReach
<1>1. ASSUME ApiInv PROVE NothingOutOfReach
  <2> DEFINE stats == Rest(db, Ask("get_status", Empty, Empty), "none").val
             listed == UNION {{row.id : row \in RestList(g)} : g \in ValidNames}
             Reached(route, g, j) == Rest(db, Ask(route, g, j), "none").status = 200
  <2>1. listed = Stored
    <3>1. \A g : RestList(g) = List(db, g)
      BY ListAnswers, Zenon
    <3>2. listed = UNION {{row.id : row \in List(db, g)} : g \in ValidNames}
      BY <3>1, Zenon
    <3> QED
      BY <1>1, <3>2, ListedAreStored, Zenon
  <2>2. Cardinality(StoredActive) + Cardinality(Stored \ StoredActive) = Cardinality(Stored)
    <3>1. IsFiniteSet(Stored)
      BY NamesAssumption, FS_Subset DEF Stored
    <3>2. StoredActive \in SUBSET Stored /\ (Stored \ StoredActive) \in SUBSET Stored
      BY DEF StoredActive
    <3> HIDE DEF listed
    <3>3. IsFiniteSet(StoredActive) /\ IsFiniteSet(Stored \ StoredActive)
      BY <3>1, <3>2, FS_Subset
    <3>4. /\ Cardinality(StoredActive) \in Nat /\ Cardinality(Stored \ StoredActive) \in Nat
          /\ StoredActive \cap (Stored \ StoredActive) = {}
          /\ StoredActive \cup (Stored \ StoredActive) = Stored
          /\ Cardinality({}) = 0
      BY <3>2, <3>3, FS_CardinalityType, FS_EmptySet
    <3>5. Cardinality(StoredActive \cup (Stored \ StoredActive)) =
            Cardinality(StoredActive) + Cardinality(Stored \ StoredActive)
              - Cardinality(StoredActive \cap (Stored \ StoredActive))
      BY <3>3, FS_Union
    <3>6. Cardinality(Stored) = Cardinality(StoredActive) + Cardinality(Stored \ StoredActive) - 0
      BY <3>4, <3>5, Zenon
    <3> QED
      BY <3>4, <3>6
  <2>3. stats.active = Cardinality(StoredActive) /\ stats.paused = Cardinality(Stored \ StoredActive)
    BY StatusAnswers, Zenon
  <2>4. \A g \in ValidNames : \A row \in RestList(g) : \A route \in {"post_pause", "delete_job"} :
            Reached(route, g, row.id)
    <3>1. \A g \in ValidNames : \A row \in RestList(g) : Owns(db, g, row.id)
      BY <1>1, ListAnswers, RowFacts, Zenon
    <3>2. \A g, j : Owns(db, g, j) => \A route \in {"post_pause", "delete_job"} : Reached(route, g, j)
      BY OwnedAnswers, Zenon
    <3> HIDE DEF listed, stats, Reached
    <3> QED
      BY <3>1, <3>2, Zenon
  <2> HIDE DEF stats, listed, Reached
  <2>5. stats.active + stats.paused = Cardinality(listed)
    BY <2>1, <2>2, <2>3, Zenon
  <2> QED
    BY <2>4, <2>5, Zenon DEF NothingOutOfReach, stats, listed, Reached
<1> QED
  BY <1>1, ApiInvariant, PTL

-----------------------------------------------------------------------------
(* Requests sent again *)

\* The error of a call that is repeated after it took effect.
AgainErr(op) ==
    CASE op \in {"RegisterGroup", "Push"} -> "duplicate"
      [] op \in {"RemoveGroup", "Delete"} -> "notfound"
      [] OTHER -> "nil"

\* What a call answers on the tables it left.
AgainOK(tab, c) ==
    LET new == Quene(tab, c).db IN
    Quene(new, c).db = new /\ Quene(new, c).err = AgainErr(c.op)

\* What a write of one definition does.
LEMMA SetJobFacts ==
    ASSUME NEW tab, TablesOK(tab), NEW j \in ValidNames, NEW d
    PROVE  /\ SetJob(tab, j, d).groups = tab.groups /\ SetJob(tab, j, d).jobs[j] = d
           /\ SetJob(SetJob(tab, j, d), j, d) = SetJob(tab, j, d)
<1>1. tab = [groups |-> tab.groups, jobs |-> tab.jobs] /\ DOMAIN tab.jobs = ValidNames
  BY DEF TablesOK
<1> DEFINE new == [tab.jobs EXCEPT ![j] = d]
<1>2. SetJob(tab, j, d) = [groups |-> tab.groups, jobs |-> new]
  BY <1>1 DEF SetJob
<1>3. new[j] = d /\ [new EXCEPT ![j] = d] = new
  BY <1>1
<1> HIDE DEF new
<1>4. SetJob([groups |-> tab.groups, jobs |-> new], j, d) =
        [groups |-> tab.groups, jobs |-> [new EXCEPT ![j] = d]]
  BY DEF SetJob
<1> QED
  BY <1>2, <1>3, <1>4

\* A group is created or removed once.
LEMMA GroupCallsAgain ==
    ASSUME NEW tab, TablesOK(tab), NEW c, Quene(tab, c).err = "nil",
           c.op \in {"RegisterGroup", "RemoveGroup"}
    PROVE  AgainOK(tab, c)
<1>1. CASE c.op = "RegisterGroup"
  <2> DEFINE new == [tab EXCEPT !.groups = @ \cup {c.g}]
  <2>1. \A x : Quene(x, c) = RegisterGroup(x, c)
    BY <1>1, QueneOf
  <2>2. ValidateName(c.g) /\ Quene(tab, c) = Done({}, new)
    BY <2>1 DEF RegisterGroup, Refused
  <2>3. c.g \in new.groups
    BY DEF TablesOK
  <2> HIDE DEF new
  <2>4. Quene(tab, c).db = new
    BY <2>2 DEF Done
  <2>5. Quene(new, c) = Refused(new, "duplicate")
    BY <2>1, <2>2, <2>3 DEF RegisterGroup
  <2> QED
    BY <1>1, <2>4, <2>5 DEF AgainOK, AgainErr, Refused
<1>2. CASE c.op = "RemoveGroup"
  <2> DEFINE jobs == [j \in ValidNames |-> IF Owns(tab, c.g, j) THEN NoJob ELSE tab.jobs[j]]
             new == [groups |-> tab.groups \ {c.g}, jobs |-> jobs]
  <2>1. \A x : Quene(x, c) = RemoveGroup(x, c)
    BY <1>2, QueneOf
  <2>2. Quene(tab, c) = Done({}, new)
    <3>1. RemoveGroup(tab, c) = Refused(tab, "notfound") \/ RemoveGroup(tab, c) = Done({}, new)
      BY Zenon DEF RemoveGroup
    <3>2. Refused(tab, "notfound").err # "nil"
      BY DEF Refused
    <3> QED
      BY <2>1, <3>1, <3>2, Zenon
  <2>3. c.g \notin new.groups
    OBVIOUS
  <2> HIDE DEF new, jobs
  <2>4. Quene(tab, c).db = new
    BY <2>2 DEF Done
  <2>5. Quene(new, c) = Refused(new, "notfound")
    BY <2>1, <2>3 DEF RemoveGroup
  <2> QED
    BY <1>2, <2>4, <2>5 DEF AgainOK, AgainErr, Refused
<1> QED
  BY <1>1, <1>2

\* A job is added once.
LEMMA PushAgain ==
    ASSUME NEW tab, TablesOK(tab), NEW c \in Calls, Quene(tab, c).err = "nil", c.op = "Push"
    PROVE  AgainOK(tab, c)
<1> DEFINE d == [group |-> c.g, name |-> c.name, url |-> c.url, payload |-> c.payload,
                 exectime |-> Time(c.exectime),
                 pattern |-> IF c.pattern = Empty THEN "@once" ELSE c.pattern,
                 timeout |-> c.timeout, active |-> TRUE]
           new == SetJob(tab, c.j, d)
<1>1. \A x : Quene(x, c) = Push(x, c)
  BY QueneOf
<1>2. \A e : e # "nil" => Push(tab, c) # Refused(tab, e)
  BY <1>1 DEF Refused
<1>3. /\ ValidJob(c) /\ c.g \in tab.groups
      /\ Push(tab, c) = Done({}, new)
  BY <1>2, Zenon DEF Push, InsertJob
<1>4. d \in Def
  <2>1. /\ c.g \in Text /\ c.name \in Text /\ c.url \in Seq(Text) /\ c.payload \in Text
        /\ c.exectime \in Int /\ c.pattern \in Text /\ c.timeout \in Int
    BY DEF Calls
  <2>2. Time(c.exectime) \in Int
    BY <2>1 DEF Time, Now
  <2>3. (IF c.pattern = Empty THEN "@once" ELSE c.pattern) \in Text
    <3>1. "@once" \in Text
      BY Texts
    <3> QED
      BY <2>1, <3>1, Zenon
  <2> QED
    BY <2>1, <2>2, <2>3, Zenon DEF Def
<1> HIDE DEF d
<1>5. c.j \in ValidNames
  BY <1>3, Zenon DEF ValidJob, ValidateName
<1>6. new.groups = tab.groups /\ new.jobs[c.j] # NoJob
  BY <1>4, <1>5, SetJobFacts, NoJobAssumption
<1> HIDE DEF new
<1>7. Push(new, c) = Refused(new, "duplicate")
  BY <1>3, <1>6, Zenon DEF Push, InsertJob
<1>8. Quene(tab, c).db = new
  BY <1>1, <1>3 DEF Done
<1> QED
  BY <1>1, <1>7, <1>8 DEF AgainOK, AgainErr, Refused

\* Edit, Active and Pause set what is set already; Delete finds nothing.
LEMMA JobCallsAgain ==
    ASSUME NEW tab, TablesOK(tab), NEW c \in Calls, Quene(tab, c).err = "nil",
           c.op \in {"Edit", "Active", "Pause", "Delete"}
    PROVE  AgainOK(tab, c)
<1> DEFINE old == tab.jobs[c.j]
<1>0. c.url \in Seq(Text) /\ c.payload \in Text /\ c.exectime \in Int
  BY DEF Calls
<1>1. Owns(tab, c.g, c.j)
  <2>1. \A e : e # "nil" => Quene(tab, c) # Refused(tab, e)
    BY DEF Refused
  <2>2. /\ c.op = "Edit" => Quene(tab, c) = Edit(tab, c)
        /\ c.op = "Active" => Quene(tab, c) = Active(tab, c)
        /\ c.op = "Pause" => Quene(tab, c) = Pause(tab, c)
        /\ c.op = "Delete" => Quene(tab, c) = Delete(tab, c)
    BY QueneOf
  <2> QED
    BY <2>1, <2>2, Zenon DEF Edit, Active, Pause, Delete
<1>2. c.j \in ValidNames /\ old \in Def /\ old # NoJob /\ old.group = c.g
  BY <1>1, OwnedFacts
<1> HIDE DEF old
\* A call that sets d the first time and the second.
<1>3. ASSUME NEW d \in Def, d.group = c.g, c.op # "Delete",
             Quene(tab, c) = Done({}, SetJob(tab, c.j, d)),
             \A x : Owns(x, c.g, c.j) /\ x.jobs[c.j] = d =>
                        Quene(x, c) = Done({}, SetJob(x, c.j, d))
      PROVE  AgainOK(tab, c)
  <2> DEFINE new == SetJob(tab, c.j, d)
  <2>1. new.jobs[c.j] = d /\ SetJob(new, c.j, d) = new
    BY <1>2, SetJobFacts
  <2> HIDE DEF new
  <2>2. Owns(new, c.g, c.j)
    BY <1>2, <1>3, <2>1, NoJobAssumption DEF Owns
  <2>3. Quene(new, c) = Done({}, new)
    BY <1>3, <2>1, <2>2, Zenon
  <2>4. Quene(tab, c).db = new
    BY <1>3 DEF Done, new
  <2>5. AgainErr(c.op) = "nil"
    BY <1>3 DEF AgainErr
  <2> QED
    BY <2>3, <2>4, <2>5 DEF AgainOK, Done
<1>4. CASE c.op = "Edit"
  <2> DEFINE d == [old EXCEPT !.url = c.url, !.payload = c.payload]
  <2>1. d \in Def /\ d.group = c.g /\ [d EXCEPT !.url = c.url, !.payload = c.payload] = d
    BY <1>0, <1>2 DEF Def
  <2> HIDE DEF d
  <2>2. \A x : Quene(x, c) = Edit(x, c)
    BY <1>4, QueneOf
  <2>3. SplitsRequestURL(c.url)
    <3>1. Edit(tab, c) # Refused(tab, "invalid")
      BY <2>2 DEF Refused
    <3> QED
      BY <3>1, Zenon DEF Edit
  <2>4. Quene(tab, c) = Done({}, SetJob(tab, c.j, d))
    BY <1>1, <2>2, <2>3, Zenon DEF Edit, d, old
  <2>5. ASSUME NEW x, Owns(x, c.g, c.j), x.jobs[c.j] = d
        PROVE  Quene(x, c) = Done({}, SetJob(x, c.j, d))
    <3>1. [x.jobs[c.j] EXCEPT !.url = c.url, !.payload = c.payload] = d
      BY <2>1, <2>5
    <3>2. Edit(x, c) = Done({}, SetJob(x, c.j, [x.jobs[c.j] EXCEPT !.url = c.url, !.payload = c.payload]))
      BY <2>3, <2>5, Zenon DEF Edit
    <3> QED
      BY <2>2, <3>1, <3>2
  <2> QED
    BY <1>3, <1>4, <2>1, <2>4, <2>5
<1>5. CASE c.op = "Active"
  <2> DEFINE d == [old EXCEPT !.active = TRUE, !.exectime = Time(c.exectime)]
  <2>0. Time(c.exectime) \in Int
    BY <1>0 DEF Time, Now
  <2>1. d \in Def /\ d.group = c.g /\ [d EXCEPT !.active = TRUE, !.exectime = Time(c.exectime)] = d
    BY <1>2, <2>0 DEF Def
  <2> HIDE DEF d
  <2>2. \A x : Quene(x, c) = Active(x, c)
    BY <1>5, QueneOf
  <2>3. ~(c.exectime < 0)
    <3>1. Active(tab, c) # Refused(tab, "invalid")
      BY <2>2 DEF Refused
    <3> QED
      BY <3>1, Zenon DEF Active
  <2>4. Quene(tab, c) = Done({}, SetJob(tab, c.j, d))
    BY <1>1, <2>2, <2>3, Zenon DEF Active, d, old
  <2>5. ASSUME NEW x, Owns(x, c.g, c.j), x.jobs[c.j] = d
        PROVE  Quene(x, c) = Done({}, SetJob(x, c.j, d))
    <3>1. [x.jobs[c.j] EXCEPT !.active = TRUE, !.exectime = Time(c.exectime)] = d
      BY <2>1, <2>5
    <3>2. Active(x, c) = Done({}, SetJob(x, c.j, [x.jobs[c.j] EXCEPT !.active = TRUE, !.exectime = Time(c.exectime)]))
      BY <2>3, <2>5, Zenon DEF Active
    <3> QED
      BY <2>2, <3>1, <3>2
  <2> QED
    BY <1>3, <1>5, <2>1, <2>4, <2>5
<1>6. CASE c.op = "Pause"
  <2> DEFINE d == [old EXCEPT !.active = FALSE]
  <2>1. d \in Def /\ d.group = c.g /\ [d EXCEPT !.active = FALSE] = d
    BY <1>2 DEF Def
  <2> HIDE DEF d
  <2>2. \A x : Quene(x, c) = Pause(x, c)
    BY <1>6, QueneOf
  <2>4. Quene(tab, c) = Done({}, SetJob(tab, c.j, d))
    BY <1>1, <2>2, Zenon DEF Pause, d, old
  <2>5. ASSUME NEW x, Owns(x, c.g, c.j), x.jobs[c.j] = d
        PROVE  Quene(x, c) = Done({}, SetJob(x, c.j, d))
    <3>1. [x.jobs[c.j] EXCEPT !.active = FALSE] = d
      BY <2>1, <2>5
    <3>2. Pause(x, c) = Done({}, SetJob(x, c.j, [x.jobs[c.j] EXCEPT !.active = FALSE]))
      BY <2>5, Zenon DEF Pause
    <3> QED
      BY <2>2, <3>1, <3>2
  <2> QED
    BY <1>3, <1>6, <2>1, <2>4, <2>5
<1>7. CASE c.op = "Delete"
  <2> DEFINE new == SetJob(tab, c.j, NoJob)
  <2>1. \A x : Quene(x, c) = Delete(x, c)
    BY <1>7, QueneOf
  <2>2. Quene(tab, c) = Done({}, new)
    BY <1>1, <2>1, Zenon DEF Delete
  <2>3. ~Owns(new, c.g, c.j)
    <3>1. new.jobs[c.j] = NoJob
      BY <1>2, SetJobFacts
    <3> QED
      BY <3>1, Zenon DEF Owns
  <2> HIDE DEF new
  <2>4. Quene(new, c) = Refused(new, "notfound")
    BY <2>1, <2>3, Zenon DEF Delete
  <2>5. Quene(tab, c).db = new
    BY <2>2 DEF Done
  <2> QED
    BY <1>7, <2>4, <2>5 DEF AgainOK, AgainErr, Refused
<1> QED
  BY <1>4, <1>5, <1>6, <1>7

\* DeleteJobs deletes nothing the second time.
LEMMA DeleteJobsAgain ==
    ASSUME NEW tab, TablesOK(tab), NEW c, c.op = "DeleteJobs"
    PROVE  AgainOK(tab, c)
<1> DEFINE Del(x) == {j \in ValidNames : Owns(x, c.g, j) /\ c.name \in {Empty, x.jobs[j].name}}
           jobs == [j \in ValidNames |-> IF j \in Del(tab) THEN NoJob ELSE tab.jobs[j]]
           new == [groups |-> tab.groups, jobs |-> jobs]
<1>1. \A x : Quene(x, c) = Done(Cardinality(Del(x)),
             [x EXCEPT !.jobs = [j \in ValidNames |-> IF j \in Del(x) THEN NoJob ELSE @[j]]])
  <2>1. \A x : Quene(x, c) = DeleteJobs(x, c)
    BY QueneOf
  <2> QED
    BY <2>1, Zenon DEF DeleteJobs
<1>2. tab = [groups |-> tab.groups, jobs |-> tab.jobs] /\ tab.jobs \in [ValidNames -> Def \cup {NoJob}]
  BY DEF TablesOK
<1>3. Quene(tab, c).db = new
  <2> HIDE DEF Del
  <2>1. [tab EXCEPT !.jobs = [j \in ValidNames |-> IF j \in Del(tab) THEN NoJob ELSE @[j]]] = new
    BY <1>2
  <2> HIDE DEF new
  <2>2. Quene(tab, c) = Done(Cardinality(Del(tab)), new)
    BY <1>1, <2>1
  <2> QED
    BY <2>2 DEF Done
<1>4. Del(new) = {}
  <2> SUFFICES ASSUME NEW j \in Del(new) PROVE FALSE
    OBVIOUS
  <2>1. j \in ValidNames /\ Owns(new, c.g, j) /\ c.name \in {Empty, new.jobs[j].name}
    OBVIOUS
  <2>2. jobs[j] # NoJob /\ new.jobs[j] = jobs[j] /\ jobs[j].group = c.g
    BY <2>1 DEF Owns
  <2>3. j \notin Del(tab) /\ jobs[j] = tab.jobs[j]
    <3> HIDE DEF Del
    <3> QED
      BY <2>1, <2>2
  <2>4. j \in Del(tab)
    <3>1. Owns(tab, c.g, j) /\ c.name \in {Empty, tab.jobs[j].name}
      <4> HIDE DEF jobs, new
      <4> QED
        BY <2>1, <2>2, <2>3 DEF Owns
    <3> QED
      BY <2>1, <3>1
  <2> QED
    BY <2>3, <2>4
<1> HIDE DEF Del
<1>5. [new EXCEPT !.jobs = [j \in ValidNames |-> IF j \in Del(new) THEN NoJob ELSE @[j]]] = new
  <2>1. jobs = [j \in ValidNames |-> jobs[j]]
    OBVIOUS
  <2> HIDE DEF jobs
  <2> QED
    BY <1>4, <2>1
<1> HIDE DEF new
<1>6. Quene(new, c).db = new /\ Quene(new, c).err = "nil"
  <2>1. Quene(new, c) = Done(Cardinality(Del(new)), new)
    BY <1>1, <1>5
  <2> QED
    BY <2>1 DEF Done
<1> QED
  BY <1>3, <1>6 DEF AgainOK, AgainErr

\* Every call.
LEMMA CallsAgain ==
    ASSUME NEW tab, TablesOK(tab), NEW c \in Calls, c.op \in Ops, Quene(tab, c).err = "nil"
    PROVE  AgainOK(tab, c)
<1>1. CASE c.op \in {"List", "Stats", "History", "GroupInfo", "QueryGroups"}
  <2>1. Quene(tab, c).db = tab
    BY <1>1, QueneOf, ReadAnswers
  <2>2. AgainErr(c.op) = "nil"
    BY <1>1 DEF AgainErr
  <2> QED
    BY <2>1, <2>2, Zenon DEF AgainOK
<1> QED
  BY <1>1, GroupCallsAgain, PushAgain, JobCallsAgain, DeleteJobsAgain DEF Ops, GrpcOps

\* The operation of each route.
LEMMA RouteOps ==
    ASSUME NEW r, IsRequest(r)
    PROVE  Status(AgainErr(RestCall(r).op)) = Repeated(r.route)
<1> DEFINE c == RestCall(r)
<1>1. Decoded(r) \in Calls
  BY CallForms DEF Decoded, IsRequest
<1>2. CASE r.route \in {"post_groups", "delete_group"}
  <2>1. c.op = IF r.route = "post_groups" THEN "RegisterGroup" ELSE "RemoveGroup"
    BY <1>2, CallForms DEF RestCall, RestGroupCall, Calls
  <2> HIDE DEF c
  <2> QED
    BY <1>2, <2>1 DEF AgainErr, Status, Repeated, c
<1>3. CASE r.route \in {"get_status", "get_history", "get_group", "get_groups", "get_jobs"}
  <2>1. c.op \in {"List", "Stats", "History", "GroupInfo", "QueryGroups"}
    BY <1>3, CallForms DEF RestCall, RestReadCall, Calls
  <2> HIDE DEF c
  <2> QED
    BY <1>3, <2>1 DEF AgainErr, Status, Repeated, c
<1>4. CASE r.route = "post_jobs"
  <2>1. c.op = "Push"
    BY <1>1, <1>4 DEF RestCall, RestJobCall, Calls
  <2> HIDE DEF c
  <2> QED
    BY <1>4, <2>1 DEF AgainErr, Status, Repeated, c
<1>5. CASE r.route \in {"patch_job", "delete_jobs", "post_pause", "post_activate"}
  <2>1. c.op \in {"Edit", "DeleteJobs", "Pause", "Active"}
    BY <1>5, CallForms DEF RestCall, RestJobCall, Calls
  <2> HIDE DEF c
  <2> QED
    BY <1>5, <2>1 DEF AgainErr, Status, Repeated, c
<1>6. CASE r.route = "delete_job"
  <2>1. c.op = "Delete"
    BY <1>6, CallForms DEF RestCall, RestJobCall, Calls
  <2> HIDE DEF c
  <2> QED
    BY <1>6, <2>1 DEF AgainErr, Status, Repeated, c
<1> QED
  BY <1>2, <1>3, <1>4, <1>5, <1>6, RouteNames DEF IsRequest

\* A request whose COMMIT took effect and answered an error can be sent again: it
\* has no second effect, and the status tells the client that it had the first.
THEOREM RepeatsTell == Spec => []RepeatTells
<1>1. ASSUME ApiInv, NEW route \in DOMAIN Routes, NEW r \in RestRequests[route], Accepted(r)
      PROVE  LET first == Rest(db, r, "unknown")
                 again == Rest(first.db, r, "none") IN
             again.db = first.db /\ again.status = Repeated(route)
  <2> DEFINE c == RestCall(r)
             new == Quene(db, c).db
  <2>1. IsRequest(r) /\ r.route = route /\ c \in Calls /\ c.op \in Ops
    <3>1. IsRequest(r)
      BY RestRequestsAre
    <3>2. r.route = route
      BY DEF RestRequests, Request
    <3> QED
      BY <3>1, <3>2, RestDecodes
  <2>2. Answer(Quene(db, c))
    BY <2>1, QueneKeeps, Zenon
  <2> HIDE DEF c
  <2>3. RestStatus(r) = 200 /\ Quene(db, c).err = "nil"
    <3>1. Rest(db, r, "none").status = 200
      BY <1>1, Zenon DEF Accepted
    <3>2. RestStatus(r) = 200
      <4> SUFFICES ASSUME RestStatus(r) # 200 PROVE FALSE
        OBVIOUS
      <4>1. Rest(db, r, "none") = [status |-> RestStatus(r), val |-> {}, db |-> db]
        BY Zenon DEF Rest
      <4>2. Rest(db, r, "none").status = RestStatus(r)
        BY <4>1
      <4> QED
        BY <3>1, <4>2
    <3> DEFINE x == Call(db, c, "none")
    <3>3. x = Quene(db, c)
      BY Zenon DEF Call
    <3>4. Rest(db, r, "none") = [status |-> Status(x.err), db |-> x.db,
                                 val |-> IF x.err = "nil" THEN RestValue(r, c, x.val) ELSE {}]
      BY <3>2, Zenon DEF Rest, c
    <3> HIDE DEF x
    <3>5. Status(x.err) = 200
      BY <3>1, <3>4
    <3>6. x.err \in Errs
      BY <2>2, <3>3, Zenon DEF Answer
    <3>7. x.err = "nil"
      BY <3>5, <3>6 DEF Status, Errs
    <3> QED
      BY <3>2, <3>3, <3>7
  <2> HIDE DEF new
  <2>4. Rest(db, r, "unknown").db = new
    <3>1. Call(db, c, "unknown") = Refused(new, "internal")
      BY <2>3 DEF Call, new
    <3>2. Call(db, c, "unknown").db = new
      BY <3>1 DEF Refused
    <3> DEFINE x == Call(db, c, "unknown")
    <3>3. Rest(db, r, "unknown") = [status |-> Status(x.err), db |-> x.db,
                                    val |-> IF x.err = "nil" THEN RestValue(r, c, x.val) ELSE {}]
      BY <2>3, Zenon DEF Rest, c
    <3> HIDE DEF x
    <3> QED
      BY <3>2, <3>3 DEF x
  <2>5. Quene(new, c).db = new /\ Quene(new, c).err = AgainErr(c.op)
    <3>1. TablesOK(db)
      BY <1>1 DEF ApiInv
    <3>2. AgainOK(db, c)
      BY <2>1, <2>3, <3>1, CallsAgain
    <3> QED
      BY <3>2, Zenon DEF AgainOK, new
  <2>6. Rest(new, r, "none").db = new /\ Rest(new, r, "none").status = Status(AgainErr(c.op))
    <3> DEFINE x == Call(new, c, "none")
    <3>1. x = Quene(new, c)
      BY Zenon DEF Call
    <3>2. Rest(new, r, "none") = [status |-> Status(x.err), db |-> x.db,
                                  val |-> IF x.err = "nil" THEN RestValue(r, c, x.val) ELSE {}]
      BY <2>3, Zenon DEF Rest, c
    <3> HIDE DEF x
    <3> QED
      BY <2>5, <3>1, <3>2
  <2>7. Status(AgainErr(c.op)) = Repeated(route)
    BY <2>1, RouteOps, Zenon DEF c
  <2> QED
    BY <2>4, <2>6, <2>7, Zenon
<1>2. ApiInv => RepeatTells
  BY <1>1, Zenon DEF RepeatTells
<1> QED
  BY <1>2, ApiInvariant, PTL
=============================================================================
