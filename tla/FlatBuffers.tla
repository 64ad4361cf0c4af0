----------------------------- MODULE FlatBuffers -----------------------------
(***************************************************************************)
(* The flatbuffers Builder and reader that every serialize method of       *)
(* src/symbol/type.go drives.  The library itself is not part of this      *)
(* repository; these operators model its documented behaviour (spec.md     *)
(* section 4.4) at the granularity the encoders use:                       *)
(*                                                                         *)
(*  - a buffer is a sequence of words that grows at the FRONT (Prepend);   *)
(*  - the offset of an object is its distance from the END of the buffer,  *)
(*    i.e. Len(buf) right after the object was written, so offsets stay    *)
(*    valid while the buffer keeps growing;                                *)
(*  - a reference (UOffsetT) is stored RELATIVE to the slot holding it and *)
(*    resolved by the reader by subtracting it from the slot's offset;     *)
(*  - a string is one word [str |-> s]; a table is one word holding its    *)
(*    reference fields (relative) and its scalar fields, where a scalar    *)
(*    equal to its default 0 and a reference equal to 0 are not written    *)
(*    (flatbuffers' Prepend*Slot skips defaults), and read back as 0.      *)
(***************************************************************************)
EXTENDS Naturals, Sequences

\* Builder.Offset(): the offset the next object will get is Len + 1.
Offset(b) == Len(b)

Prepend(b, w) == <<w>> \o b

\* Builder.CreateString / CreateByteString.  The string's offset is Len(result).
CreateString(b, s) == Prepend(b, [str |-> s])

\* Builder.PrependUOffsetT: store the reference relative to its own slot.
PrependUOffsetT(b, off) == Prepend(b, (Offset(b) + 1) - off)

\* Builder.StartVector writes nothing observable; EndVector prepends the length.
EndVector(b, n) == Prepend(b, n)

\* StartObject / Add*Slot / EndObject.  refs: field -> absolute offset (0 =
\* not set), vals: field -> scalar.  Fields at their default are dropped.
EndObject(b, refs, vals) ==
  LET rset == {f \in DOMAIN refs : refs[f] # 0}
      vset == {f \in DOMAIN vals : vals[f] # 0}
  IN Prepend(b, [refs |-> [f \in rset |-> (Offset(b) + 1) - refs[f]],
                 vals |-> [f \in vset |-> vals[f]]])

\* Builder.Finish: prepend the root reference.
Finish(b, root) == PrependUOffsetT(b, root)

-----------------------------------------------------------------------------
(* Reader side (the generated accessors of internal/symbol).               *)

\* The word at offset off (offsets count from the end).
At(b, off) == b[(Len(b) + 1) - off]

\* Follow the UOffsetT stored in the slot at offset slot.
Deref(b, slot) == slot - At(b, slot)

\* GetRootAs*(buf, 0): the root table is referenced by the first word.
RootOf(b) == Deref(b, Len(b))

\* Table field accessors.  An absent reference reads as 0, an absent scalar
\* as its default 0.
RefField(b, t, f) ==
  IF f \in DOMAIN At(b, t).refs THEN t - At(b, t).refs[f] ELSE 0

ScalarField(b, t, f) ==
  IF f \in DOMAIN At(b, t).vals THEN At(b, t).vals[f] ELSE 0

\* String accessors return nil for an absent field; string(nil) = "".
StringAt(b, off) == IF off = 0 THEN "" ELSE At(b, off).str

StringField(b, t, f) == StringAt(b, RefField(b, t, f))

\* <Field>Length(): 0 when the vector is absent.
VectorLength(b, t, f) ==
  LET v == RefField(b, t, f) IN IF v = 0 THEN 0 ELSE At(b, v)

\* <Field>(obj, j), j counted from 0: element j's slot follows the length.
VectorElem(b, t, f, j) ==
  LET v == RefField(b, t, f) IN Deref(b, (v - 1) - j)

\* All element offsets of a vector field, in the order the reader sees them.
VectorElems(b, t, f) ==
  [k \in 1..VectorLength(b, t, f) |-> VectorElem(b, t, f, k - 1)]

=============================================================================
