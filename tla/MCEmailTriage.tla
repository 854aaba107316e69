--------------------------- MODULE MCEmailTriage ---------------------------
(* The instances of EmailTriage that TLC checks.                           *)
EXTENDS EmailTriage, TLC

CONSTANTS r1, r2, o1, o2, t1

\* Three emails of one template: the draft of the second raises and ends every tick
\* that reaches it, unless its body is missing; then the third gets its turn.
MCTemplateOf == <<t1, t1, t1>>

\* A lone email.
MCOneEmail == <<t1>>
=============================================================================
