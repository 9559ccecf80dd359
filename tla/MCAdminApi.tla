----------------------------- MODULE MCAdminApi -----------------------------
(* Values of AdminApi's constants: no target, one with a prefix inside and  *)
(* one with a blank; the urls they make, and urls without prefix or target.   *)
EXTENDS AdminApi

MCTargets == {<<>>, <<"GRPC@", "x">>, <<"x", " ">>}
MCUrls == {<<>>, <<"x">>, <<"HTTP@">>, <<"GRPC@", "GRPC@", "x">>, <<"HTTP@", "GRPC@", "x">>, <<"HTTP@", "x", " ">>}
=============================================================================
