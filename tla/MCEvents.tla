------------------------------ MODULE MCEvents ------------------------------
(***************************************************************************)
(* What a command leaves behind, for TLC.  The event log, in two halves    *)
(* that meet in JournalView: on one side the journal of two writers, which *)
(* is shown to implement the view; on the other the flushes, which read    *)
(* any journal that does.  Three events on the first side, one with a      *)
(* blocking hook and one above the size limit; two on the second, and a    *)
(* delivery written more than once.  On a third side, which shares no      *)
(* state with them, the command runner and its receipts: one operation     *)
(* writes, another reads and forgets a marker.                             *)
(***************************************************************************)
EXTENDS Journal, Command, Telemetry

CONSTANTS e1, e2, e3, d1

VARIABLE side

MCBatches == {<<e1, e2>>, <<e2, e2>>, <<e3>>}
Q(program, words, intent, named) == [program |-> program, words |-> words, intent |-> intent, named |-> named]
MCAsks == [r \in Operations |->
             IF r = 1 THEN {Q("gh", {"edit"}, "provider", TRUE), Q("git", {"push"}, "git", FALSE)}
                      ELSE {Q("gh", {"api"}, "read", FALSE), Q("gh", {"api", "PUT"}, "read", TRUE)}]
MCMaxRequests == [r \in Operations |-> 1]
MCDeadlines == [r \in Operations |-> 3]

S(mode, ambient, origin) == [mode |-> mode, ambient |-> ambient, origin |-> origin]
MCSettings == {S("app", FALSE, "https"), S("ambient", FALSE, "ssh"),
               S("ambient", TRUE, "mirror"), S("app", FALSE, "rewritten"), S("broken", FALSE, "https")}

MCInit == /\ side \in {"journal", "flush", "command"} /\ Init /\ FlushInit /\ CommandInit
          /\ side # "command" => setting = S("broken", FALSE, "https")

MCNext == /\ UNCHANGED side
          /\ \/ side = "journal" /\ Next /\ UNCHANGED <<flushVars, commandVars>>
             \/ side = "flush" /\ FlushNext /\ UNCHANGED <<vars, commandVars>>
             \/ side = "command" /\ CommandNext /\ UNCHANGED <<vars, flushVars>>

(* Writers are alike, and so are flushes. *)
Alike == Permutations(Writers) \cup Permutations(Flushers)

MCSpec == MCInit /\ [][MCNext]_<<side, vars, flushVars, commandVars>>
=============================================================================
