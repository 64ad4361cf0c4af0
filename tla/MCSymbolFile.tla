---------------------------- MODULE MCSymbolFile ----------------------------
(***************************************************************************)
(* Instantiates SymbolFile for TLC.  The indexer is driven the way spec.md *)
(* section 2 describes: it builds a File once, persists it when indexing   *)
(* of that file completes -- after a Serialize the only call on that File  *)
(* is another Serialize, which reuses its builder -- and later reopens     *)
(* what it persisted.  It builds one File (a second build would repeat    *)
(* the first one) and unmarshals a reopened File once; MCRepeatSpec lets  *)
(* it unmarshal the same File again.                                       *)
(***************************************************************************)
EXTENDS SymbolFile

MCLines == {1, 2}
MCTimes == {1}

\* The File has been serialized: its builder holds a finished buffer.
Persisted == builder # Nil /\ builder # <<>>

MCNext ==
  \/ status = "none" /\ \E n \in Names, fl \in FlagLists : NewFile(n, fl)
  \/ GetRootAsFile
  \/ Serialize
  \/ /\ ~Persisted
     /\ \/ \E t \in TUs : AddTranslationUnit(t)
        \/ \E l \in Locations : AddDecl(l)
        \/ \E l, d \in Locations : d.usr = l.usr /\ AddDefinition(l, d)
        \/ \E h \in HeaderFiles, now \in Times : AddHeader(h, now)
        \/ \E l \in Locations, fc \in BOOLEAN : AddCaller(l, fc)
        \/ (file = Nil \/ symbols = Nil) /\ Unmarshal

MCSpec == Init /\ [][MCNext]_vars

\* The same indexer, which may also unmarshal a reopened File again.
MCRepeatNext ==
  \/ MCNext
  \/ ~Persisted /\ file # Nil /\ symbols # Nil /\ Unmarshal

MCRepeatSpec == Init /\ [][MCRepeatNext]_vars

\* The same indexer before it ever reopens what it persisted.
MCBuildNext == MCNext /\ ~GetRootAsFile

MCBuildSpec == Init /\ [][MCBuildNext]_vars

-----------------------------------------------------------------------------
(* Refinement mapping: the build-mode File seen as the index of spec.md   *)
(* 4.3.  A symbol is the Info stored under ToID of its USR; its Def is     *)
(* absent while it is still the zero Location.                            *)

IndexOfFile ==
  [u \in {v \in USRs : ToID(v) \in DOMAIN Table(symbols)} |->
     LET s == symbols[ToID(u)]
     IN [decls   |-> [k \in DOMAIN s.decls |-> LocationData(s.decls[k])],
         def     |-> IF s.def = ZeroLocation THEN Nil ELSE LocationData(s.def),
         callers |-> [k \in DOMAIN s.callers |-> CallerData(s.callers[k])]]]

HeadersOfFile == [k \in DOMAIN headers |-> HeaderData(headers[k])]

Index == INSTANCE SymbolIndex
           WITH index <- IndexOfFile, hdrs <- HeadersOfFile,
                unit <- translationUnit, NoUnit <- NoString, Absent <- Nil,
                Units <- TUs,
                Locs <- {LocationData(l) : l \in Locations},
                Entries <- [fileid : {IDString(ToFileID(p)) : p \in HeaderNames \cup {notExistHeaderName(Clean(NoString))}},
                            mtime : Times \cup {ZeroTimeUnix}]

\* A File built by the Add* calls implements the index the indexer relies
\* on: every AddDecl, AddDefinition, AddCaller, AddHeader and
\* AddTranslationUnit (type.go 136-203) changes the File's content the way
\* spec.md 4.3 says -- in particular AddDecl appends a declaration and
\* leaves a recorded definition in place -- and Serialize and Unmarshal
\* leave it unchanged.
IndexRefinement == Index!ISpec

\* USRs only ever meet in equality tests.
MCSymmetry == Permutations(USRs)
=============================================================================
