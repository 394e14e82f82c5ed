--------------------------- MODULE MCLeaderSchedule ---------------------------
(***************************************************************************)
(* Two authorities that lead in turn.  The one that led fewer of the       *)
(* scored commits is swapped; with as many it is drawn by the seed.        *)
(***************************************************************************)
EXTENDS LeaderSchedule

CONSTANTS a, b

MCBaseLeader == [r \in 1 .. MaxRound |-> IF r % 2 = 0 THEN a ELSE b]

Led(table, x) ==
  Cardinality({k \in DOMAIN table.scores : table.scores[k].leader.author = x})

MCSwap(table, leader, round) ==
  LET bad == IF Led(table, a) < Led(table, b) THEN a
             ELSE IF Led(table, b) < Led(table, a) THEN b
             ELSE IF (table.seed \div CommitsPerSchedule) % 2 = 0 THEN a ELSE b
  IN IF leader = bad THEN CHOOSE x \in {a, b} : x # bad ELSE leader

MCOutcomes ==
  {{s \in [round : 1 .. MaxRound, author : {a, b}] : s \notin skipped} :
     skipped \in {S \in SUBSET [round : 1 .. MaxRound, author : {a, b}] :
                    Cardinality(S) <= 3}}

RECURSIVE Following(_, _)
Following(committed, cs) ==
  LET next == NextLeaders(committed, cs) IN
  IF next = {} THEN cs
  ELSE Following(committed, Append(cs, [index |-> Len(cs) + 1,
                                        leader |-> CHOOSE s \in next : TRUE]))

MCAgreed == [committed \in MCOutcomes |-> Following(committed, << >>)]
=============================================================================
