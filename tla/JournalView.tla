----------------------------- MODULE JournalView ----------------------------
(***************************************************************************)
(* The journal as its readers may rely on it: a log that grows at its end, *)
(* forgets from its start, and may for a while show one more record than   *)
(* it will keep, the last line of a writer that did not get to its         *)
(* newline.  Journal implements it; Telemetry reads it.                    *)
(***************************************************************************)
EXTENDS Naturals, Sequences, SequencesExt

CONSTANTS Record,     \* what can be appended
          IsEvent(_), \* records that are appended once
          KeepNewest  \* the configuration retains at least one archive

VARIABLES retained,   \* the complete records, oldest first
          unfinished  \* none, or one record without its newline

view == <<retained, unfinished>>

ViewInit == retained = <<>> /\ unfinished = <<>>

(* What a reader gets.                                                     *)
Visible == retained \o unfinished

(* A record is added; an event only if it is not there already.            *)
Grow(r) ==
  /\ unfinished = <<>>
  /\ IsEvent(r) => ~Contains(retained, r)
  /\ retained' = Append(retained, r) /\ UNCHANGED unfinished

(* The n oldest records are dropped, never the newest one.                 *)
Forget(n) ==
  /\ unfinished = <<>>
  /\ KeepNewest => n < Len(retained)
  /\ retained' = SubSeq(retained, n + 1, Len(retained)) /\ UNCHANGED unfinished

(* A writer stops before its newline; the next writer removes the line.    *)
Tear(r) == unfinished = <<>> /\ unfinished' = <<r>> /\ UNCHANGED retained
Mend == unfinished # <<>> /\ unfinished' = <<>> /\ UNCHANGED retained

ViewNext ==
  \/ \E r \in Record : Grow(r) \/ Tear(r)
  \/ \E n \in 1 .. Len(retained) : Forget(n)
  \/ Mend

ViewSpec == ViewInit /\ [][ViewNext]_view
=============================================================================
