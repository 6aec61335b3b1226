------------------------------ MODULE MCPrGate -------------------------------
(* The triggering PR of on-http, one PR each of on-core and on-tasks, and a  *)
(* second PR of on-http that has the number of on-core's.  The texts contain *)
(* two-way and one-way links, circles of two and three PRs, a diamond, and   *)
(* PRs that are to be ignored.                                               *)
EXTENDS PrGate

http == <<"on-http", 1>>
core == <<"on-core", 2>>
tasks == <<"on-tasks", 3>>
http2 == <<"on-http", 2>>

MCPRs == {http, core, tasks, http2}

Says(deps) == [ignore |-> FALSE, deps |-> deps]
Ignored(deps) == [ignore |-> TRUE, deps |-> deps]

MCTexts ==
  {[p \in MCPRs |-> IF p = http THEN a ELSE IF p = core THEN b
                    ELSE IF p = tasks THEN c ELSE Says(<<>>)] :
     a \in {Ignored(<<>>), Says(<<core>>), Says(<<core, tasks>>), Says(<<tasks, http2>>)},
     b \in {Ignored(<<http>>), Says(<<tasks>>)},
     c \in {Says(<<>>), Says(<<core, http>>), Says(<<http2>>)}}
=============================================================================
