-------------------------- MODULE SubmissionJournal --------------------------
(***************************************************************************)
(* What the DEX submission of the page promises, whatever happens to the   *)
(* page between two of its steps: a call is written to the journal before  *)
(* it is sent, it is sent at most once and in the order of the journal,    *)
(* and a call is journalled only when the one before it is mined.          *)
(***************************************************************************)
EXTENDS Naturals, Sequences

CONSTANT Calls              \* a phase of a swap, with its scope

VARIABLES
  journal,                  \* the calls written, in order
  wire,                     \* the calls the chain has been given, in order
  mined                     \* how many of them have a receipt

vars == <<journal, wire, mined>>

Init == journal = << >> /\ wire = << >> /\ mined = 0

(* The next call is written once everything before it is mined.            *)
Log(c) ==
  /\ mined = Len(journal)
  /\ \A i \in 1..Len(journal) : journal[i] # c
  /\ journal' = Append(journal, c)
  /\ UNCHANGED <<wire, mined>>

(* The last call written goes out, once.                                   *)
Send ==
  /\ Len(wire) < Len(journal)
  /\ wire' = Append(wire, journal[Len(wire) + 1])
  /\ UNCHANGED <<journal, mined>>

Mine ==
  /\ mined < Len(wire)
  /\ mined' = mined + 1
  /\ UNCHANGED <<journal, wire>>

Next == (\E c \in Calls : Log(c)) \/ Send \/ Mine

Spec == Init /\ [][Next]_vars

==============================================================================
