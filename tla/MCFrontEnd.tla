----------------------------- MODULE MCFrontEnd -----------------------------
(* FrontEnd with jobs that take every branch.                              *)
EXTENDS FrontEnd

OverHttp(m, url, body) ==
  [http |-> TRUE, method |-> m, url |-> url, body |-> body]
OverGrpc(m, g) ==
  [http |-> FALSE, method |-> m, url |-> NoGroup, body |-> g]

MCJob == {
  OverHttp("Add", Remote, Local), OverHttp("BatchAdd", Local, NoGroup),
  OverHttp("Query", Local, Remote), OverGrpc("BatchAdd", NoGroup)}
=============================================================================
