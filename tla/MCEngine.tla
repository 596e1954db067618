------------------------------ MODULE MCEngine ------------------------------
(***************************************************************************)
(* Small decks for TLC: shields, explosives and up to six other codes, *)
(* each with its set of cards.  A configuration names the codes it plays.  *)
(***************************************************************************)
EXTENDS Engine, TLC

CONSTANTS
  Shields, Explosives,
  A, B, C, D, E, F,                    \* cards of one code each
  CodeOfA, CodeOfB, CodeOfC, CodeOfD, CodeOfE, CodeOfF

MCCard == UNION {Shields, Explosives, A, B, C, D, E, F}

MCCode ==
  [c \in MCCard |->
     CASE c \in Shields -> "SHIELD"
       [] c \in Explosives -> "EXPLOSIVE"
       [] c \in A -> CodeOfA
       [] c \in B -> CodeOfB
       [] c \in C -> CodeOfC
       [] c \in D -> CodeOfD
       [] c \in E -> CodeOfE
       [] c \in F -> CodeOfF]

\* Cards of one code are alike.
MCSymmetry == UNION {Permutations(S) : S \in {Shields, Explosives, A, B, C, D, E, F}}
============================================================================
