-------------------------- MODULE MCNodeExecution --------------------------
(* Small graphs for NodeExecution: a chain, and two nodes that read one    *)
(* source at the same time, each in different surroundings.                *)
EXTENDS NodeExecution

MCNodes == {"p", "c"}
MCFiles == {"s", "o", "x", "dir"}

Chain == [inputs |-> [p |-> <<"s">>, c |-> <<"o">>],
          output |-> [p |-> "o", c |-> "x"],
          sources |-> [p |-> <<"s">>, c |-> <<>>],
          digests |-> {}, workers |-> 1, clock |-> 4, builds |-> 2, edits |-> 2,
          kills |-> 0, goesBack |-> FALSE, future |-> 0, quick |-> FALSE,
          dontReuse |-> FALSE, overwrites |-> FALSE, outcomes |-> {"succeeds"}]
Killed == [Chain EXCEPT !.kills = 1, !.builds = 3, !.dontReuse = TRUE, !.edits = 1]
Future == [Chain EXCEPT !.future = 1, !.edits = 1, !.clock = 5]
Failing == [Chain EXCEPT !.outcomes = {"succeeds", "fails", "silent"}, !.edits = 1]
Digests == [Chain EXCEPT !.digests = {"s", "o"}]
Shared == [Chain EXCEPT !.inputs = [p |-> <<"s">>, c |-> <<"s">>],
           !.sources = [p |-> <<"s">>, c |-> <<"s">>],
           !.workers = 2, !.builds = 1, !.edits = 1, !.clock = 3]

MCScenarios == [chain |-> Chain, killed |-> Killed, future |-> Future,
                failing |-> Failing, digests |-> Digests, shared |-> Shared]

\* An output that is written over, within a tick, instead of being removed first.
OverwriteScenarios == [overwrite |-> [Chain EXCEPT !.quick = TRUE, !.overwrites = TRUE]]
============================================================================
