----------------------------- MODULE Directives -----------------------------
(***************************************************************************)
(* internal/filter/directives.go: the !#if, !#else and !#endif lines of    *)
(* one list.  The code keeps two counters of the open blocks, and nothing  *)
(* of each block by itself.                                                *)
(***************************************************************************)
EXTENDS Naturals, Sequences

VARIABLES
  dirs,    \* the open blocks: those whose lines apply, and the rest
  blocks   \* history: of each open block, outermost first, its branch

Counters(applied, skipped) == [applied |-> applied, skipped |-> skipped]
NoBlocks == Counters(0, 0)

\* A block under a skipped parent is not counted, so its !#endif closes the parent.
If_wrong(d, value) == CASE d.skipped > 0 -> d
                        [] d.skipped = 0 /\ value -> Counters(d.applied + 1, 0)
                        [] OTHER -> Counters(d.applied, 1)

If(d, value) == IF d.skipped > 0 \/ ~value THEN Counters(d.applied, d.skipped + 1)
                                           ELSE Counters(d.applied + 1, d.skipped)

Else(d) == CASE d.skipped = 1 -> Counters(d.applied + 1, 0)
             [] d.skipped = 0 /\ d.applied > 0 -> Counters(d.applied - 1, 1)
             [] OTHER -> d

EndIf(d) == CASE d.skipped > 0 -> Counters(d.applied, d.skipped - 1)
              [] d.skipped = 0 /\ d.applied > 0 -> Counters(d.applied - 1, 0)
              [] OTHER -> d

Skip(d) == d.skipped > 0
Open(d) == d.applied + d.skipped
-----------------------------------------------------------------------------
(* The lines.  value is what the code makes of a condition, holds what the   *)
(* condition says; "hidden" is the branch whose condition does not hold.     *)
Branch(holds) == IF holds THEN "applies" ELSE "hidden"

ListBegins == dirs = NoBlocks /\ blocks = <<>>
NextListBegins == dirs' = NoBlocks /\ blocks' = <<>>

IfLine(value, holds) ==
  /\ dirs' = If(dirs, value)
  /\ blocks' = Append(blocks, Branch(holds))

ElseLine ==
  /\ dirs' = Else(dirs)
  /\ blocks' = [i \in DOMAIN blocks |->
                IF i = Len(blocks) THEN Branch(blocks[i] = "hidden") ELSE blocks[i]]

\* One too many closes nothing.
EndIfLine ==
  /\ dirs' = EndIf(dirs)
  /\ blocks' = IF blocks = <<>> THEN <<>> ELSE SubSeq(blocks, 1, Len(blocks) - 1)

DirectiveLine ==
  \/ \E holds \in BOOLEAN : IfLine(holds, holds)
  \/ ElseLine \/ EndIfLine
  \/ NextListBegins

ListOfDirectives == ListBegins /\ [][DirectiveLine]_<<dirs, blocks>>
-----------------------------------------------------------------------------
AllApply == \A i \in DOMAIN blocks : blocks[i] = "applies"

\* The counters of open blocks say of a line what the blocks it stands in say: it
\* applies if each of them is in the branch whose condition holds
\* (directives.skip, evalCondition).
LinesApply ==
  /\ Skip(dirs) = ~AllApply
  /\ Open(dirs) = Len(blocks)
=============================================================================
