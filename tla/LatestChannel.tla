--------------------------- MODULE LatestChannel ---------------------------
(***************************************************************************)
(* What a LatestBuf promises (docs/proposals/latest-buf-contract.md): at   *)
(* most one pending publication, always the newest; a take removes it and  *)
(* reports how many publications it skipped; a publish reports whether it  *)
(* displaced an unread one.  Publications are numbered 1, 2, ... without   *)
(* wrap; the wrapped generation is only what the reports show.             *)
(***************************************************************************)
EXTENDS Integers

CONSTANT Modulus      \* number of generation values, the reserved 0 included

VARIABLES pending,    \* number of the pending publication, 0 if none
          published,  \* number of publications made
          taken,      \* number of the last publication taken, 0 if none
          report,     \* the last PublishReport
          item        \* the last LatestItem

vars == <<pending, published, taken, report, item>>

Span == Modulus - 1

\* G1, G2: generations count up from 1 and wrap without ever being 0.
Generation(n) == IF n = 0 THEN 0 ELSE ((n - 1) % Span) + 1

\* C3: exact while fewer than Span publications separate two takes; beyond that
\* whole spans go missing, and coincident generations report none skipped.
Skipped(from, to) ==
    LET d == to - from IN
    IF d < Span THEN d - 1
    ELSE IF Generation(from) = Generation(to) THEN 0
    ELSE (d - 1) % Span

NoReport == [generation |-> 0, replaced_unread |-> FALSE]
NoItem   == [value |-> 0, generation |-> 0, skipped |-> 0]

Init ==
    /\ pending = 0 /\ published = 0 /\ taken = 0
    /\ report = NoReport /\ item = NoItem

\* P3, P4
Publish ==
    /\ published' = published + 1
    /\ pending' = published + 1
    /\ report' = [generation |-> Generation(published + 1),
                  replaced_unread |-> pending # 0]
    /\ UNCHANGED <<taken, item>>

\* C1, C3, O1: the value returned is that of the newest publication.
Take ==
    /\ pending # 0
    /\ item' = [value |-> pending, generation |-> Generation(pending),
                skipped |-> Skipped(taken, pending)]
    /\ taken' = pending
    /\ pending' = 0
    /\ UNCHANGED <<published, report>>

Next == Publish \/ Take

Spec == Init /\ [][Next]_vars
=============================================================================
