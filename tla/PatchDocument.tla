---------------------------- MODULE PatchDocument ----------------------------
(***************************************************************************)
(* A structured patch applied to a document of blocks, one operation after *)
(* the other on a working copy (service/artifact_patch_service.py,         *)
(* _apply_patch_to_document).  The order of the blocks and the blocks      *)
(* themselves are kept apart while a patch is applied, and joined at its   *)
(* end; an operation that does not fit rejects the whole patch.            *)
(*                                                                         *)
(* Bound: MaxPatchOps, operations of a patch.                              *)
(***************************************************************************)
EXTENDS Naturals, SequencesExt

CONSTANTS
  Blocks,         \* block ids
  Texts,          \* what a field of a block may hold
  MaxPatchOps,
  NoPatch

VARIABLES
  document,       \* the blocks of the stored document: a sequence of [id, text]
  working         \* the copy a patch is applied to, or NoPatch

patchVars == <<document, working>>

-----------------------------------------------------------------------------
\* The operations of a patch; a field that an action does not use is left at any value.
Ops ==
  [action : {"set_field", "append_text", "insert_block_after", "insert_block_before",
             "delete_block"},
   target : Blocks, old : Texts, new : Texts, newBlock : Blocks]

\* The copy: the order of the blocks and the text of each.
Copies ==
  [order : Seq(Blocks), text : UNION {[bs -> Texts] : bs \in SUBSET Blocks}, ops : 0 .. MaxPatchOps]

ASSUME PatchAssumption == MaxPatchOps \in Nat /\ NoPatch \notin Copies

Order(blocks)   == [i \in DOMAIN blocks |-> blocks[i].id]
BlockMap(blocks) ==
  [b \in {blocks[i].id : i \in DOMAIN blocks} |->
     (CHOOSE x \in {blocks[i] : i \in DOMAIN blocks} : x.id = b).text]

PatchInit ==
  /\ document \in {<<[id |-> b, text |-> t]>> : b \in Blocks, t \in Texts}
  /\ working = NoPatch

\* apply_artifact_patch_async checks the version and takes a copy.
BeginPatch ==
  /\ working = NoPatch
  /\ working' = [order |-> Order(document), text |-> BlockMap(document), ops |-> 0]
  /\ UNCHANGED document

\* Mutation: a new block may have the id of another.
Fits_Duplicate(w, op) ==
  /\ op.target \in DOMAIN w.text
  /\ op.action \in {"set_field", "delete_block"} => w.text[op.target] = op.old

\* An operation is refused when its target is not there, when the text it expects is not
\* the text it finds, or when the block it adds has the id of another.
Fits(w, op) ==
  /\ op.target \in DOMAIN w.text
  /\ op.action \in {"set_field", "delete_block"} => w.text[op.target] = op.old
  /\ op.action \in {"insert_block_after", "insert_block_before"} =>
       op.newBlock \notin DOMAIN w.text

Position(w, b) == CHOOSE i \in DOMAIN w.order : w.order[i] = b

\* The order without a block, wherever it stands.
Removed(order, b) ==
  LET kept[i \in 0 .. Len(order)] ==
        IF i = 0 THEN << >>
        ELSE IF order[i] = b THEN kept[i - 1] ELSE Append(kept[i - 1], order[i])
  IN  kept[Len(order)]

OrderAfter(w, op) ==
  CASE op.action = "insert_block_after"  -> InsertAt(w.order, Position(w, op.target) + 1, op.newBlock)
    [] op.action = "insert_block_before" -> InsertAt(w.order, Position(w, op.target), op.newBlock)
    [] op.action = "delete_block"        -> Removed(w.order, op.target)
    [] OTHER                             -> w.order

\* append_text makes another text of the one there is.
TextAfter(w, op) ==
  CASE op.action \in {"set_field", "append_text"} -> [w.text EXCEPT ![op.target] = op.new]
    [] op.action = "delete_block" -> [b \in DOMAIN w.text \ {op.target} |-> w.text[b]]
    [] OTHER -> [b \in DOMAIN w.text \cup {op.newBlock} |->
                   IF b = op.newBlock THEN op.new ELSE w.text[b]]

\* One operation of the patch.
ApplyOp(op) ==
  /\ working # NoPatch /\ working.ops < MaxPatchOps
  /\ Fits(working, op)
  /\ working' = [order |-> OrderAfter(working, op), text |-> TextAfter(working, op),
                 ops |-> working.ops + 1]
  /\ UNCHANGED document

\* _result_from_issues: the copy is dropped.
Reject(op) ==
  /\ working # NoPatch /\ working.ops < MaxPatchOps
  /\ ~ Fits(working, op)
  /\ working' = NoPatch
  /\ UNCHANGED document

\* The blocks in their order are the next version; a patch without operations is refused.
EndOfPatch ==
  /\ working # NoPatch
  /\ document' = IF working.ops = 0 THEN document
                 ELSE [i \in DOMAIN working.order |->
                         [id |-> working.order[i], text |-> working.text[working.order[i]]]]
  /\ working' = NoPatch

PatchNext ==
  \/ BeginPatch \/ EndOfPatch
  \/ \E op \in Ops : ApplyOp(op) \/ Reject(op)

PatchSpec == PatchInit /\ [][PatchNext]_patchVars

-----------------------------------------------------------------------------
\* At every operation of a patch the order names each block of the copy exactly once, so
\* that the next version loses no block and has none twice.
OneOfEach ==
  /\ IsInjective(Order(document))
  /\ working # NoPatch =>
       IsInjective(working.order) /\ ToSet(working.order) = DOMAIN working.text
=============================================================================
