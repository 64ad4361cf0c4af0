-------------------------- MODULE MCSymbolFileDraft --------------------------
(***************************************************************************)
(* Instantiates SymbolFileDraft for TLC, driven as MCSymbolFile drives     *)
(* type.go's File: one File is built, serialized (further Serialize calls  *)
(* reuse its builder) and may be reopened.  The draft File is mapped onto  *)
(* the index of spec.md 4.3 the same way as type.go's.                     *)
(***************************************************************************)
EXTENDS SymbolFileDraft

MCTimes == {1}

Persisted == builder # Nil /\ builder # <<>>

MCNext ==
  \/ status = "none" /\ \E n \in Names : NewFile(n)
  \/ GetRootAsFile
  \/ Serialize
  \/ /\ ~Persisted
     /\ \/ \E t \in TUs : AddTranslationUnit(t)
        \/ \E l \in Locations : AddDecl(l)
        \/ \E l, d \in Locations : d.usr = l.usr /\ AddDefinition(l, d)
        \/ \E h \in HeaderFiles, now \in Times : AddHeader(h, now)
        \/ \E l \in Locations, fc \in BOOLEAN : AddCaller(l, fc)

MCSpec == Init /\ [][MCNext]_draftVars

-----------------------------------------------------------------------------
(* Refinement mapping.  A File being built is read as IndexOfFile in       *)
(* MCSymbolFile reads type.go's.  A File opened by GetRootAsFile is read   *)
(* as the index its bytes decode to, a symbol's USR recovered from the ID  *)
(* string it was stored under: reopening is then a stuttering step exactly *)
(* when the persisted bytes hold the whole index.  An opened File's bytes  *)
(* are the stored ones (file is set from stored only, and stored changes   *)
(* only through a builder, which an opened File lacks), and they decode to *)
(* `written` by EncodingLossless, checked in the same run; the mapping     *)
(* reads `written` rather than decoding the buffer again in every step.    *)

DefData(d) == IF d = LocationData(ZeroLocation) THEN Nil ELSE d

BuiltIndex ==
  [u \in {v \in USRs : ToID(v) \in DOMAIN Table(symbols)} |->
     LET s == symbols[ToID(u)]
     IN [decls   |-> [k \in DOMAIN s.decls |-> LocationData(s.decls[k])],
         def     |-> DefData(LocationData(s.def)),
         callers |-> [k \in DOMAIN s.callers |-> CallerData(s.callers[k])]]]

OpenedIndex ==
  [u \in {written.symbols[k].id.blake2b : k \in DOMAIN written.symbols} |->
     LET w == written.symbols[CHOOSE k \in DOMAIN written.symbols :
                                 written.symbols[k].id.blake2b = u]
     IN [decls |-> w.decls, def |-> DefData(w.def), callers |-> w.callers]]

DraftIndex == IF file = Nil THEN BuiltIndex ELSE OpenedIndex

DraftHeaders ==
  IF file = Nil THEN [k \in DOMAIN headers |-> HeaderData(headers[k])]
  ELSE written.headers

DraftUnit == IF file = Nil THEN translationUnit ELSE written.tu

Index == INSTANCE SymbolIndex
           WITH index <- DraftIndex, hdrs <- DraftHeaders,
                unit <- DraftUnit, NoUnit <- NoString, Absent <- Nil,
                Units <- TUs,
                Locs <- {LocationData(l) : l \in Locations},
                Entries <- [fileid : {IDString(h) : h \in HeaderIDs}, mtime : Times]

\* The draft File implements the index the indexer relies on: AddDecl
\* appends a declaration and keeps the recorded definition, AddDefinition
\* overwrites it, AddCaller, AddHeader and AddTranslationUnit append or
\* replace as spec.md 4.3 says (part_001 91-158, 437-439); Serialize leaves
\* the content unchanged.
DraftIndexRefinement == Index!ISpec


MCSymmetry == Permutations(USRs)
=============================================================================
