----------------------------- MODULE SymbolIndex -----------------------------
(***************************************************************************)
(* What a build-mode File promises its indexer (spec.md 4.3, 8): per USR   *)
(* one record of declarations in call order, at most one definition where *)
(* a later AddDefinition wins and AddDecl leaves it alone, and callers in  *)
(* call order; an append-only list of headers; the latest translation-unit *)
(* snapshot.  No hashing, no buffers: this is the index the encoding and   *)
(* the ID-keyed table are meant to implement.                              *)
(***************************************************************************)
EXTENDS Sequences

CONSTANTS
  Locs,      \* locations, as the data a Location carries (each has a .usr)
  Entries,   \* header entries [fileid, mtime]
  Units,     \* translation-unit snapshots
  Absent,    \* no definition recorded
  NoUnit     \* no snapshot recorded

VARIABLES
  index,     \* USR -> [decls, def, callers], for every USR seen so far
  hdrs,      \* header entries, in AddHeader order
  unit       \* the latest snapshot

indexVars == <<index, hdrs, unit>>

EmptyRecord == [decls |-> <<>>, def |-> Absent, callers |-> <<>>]

\* The record of usr u, created empty on first use.
RecordOf(u) == IF u \in DOMAIN index THEN index[u] ELSE EmptyRecord

\* Replace (or create) the record of u.
Store(u, r) == index' = [v \in DOMAIN index \cup {u} |-> IF v = u THEN r ELSE index[v]]

IInit ==
  /\ index = [u \in {} |-> EmptyRecord]
  /\ hdrs = <<>>
  /\ unit = NoUnit

\* AddDefinition(loc, def); AddDecl(loc) is AddDefinition(loc, Absent).
IAddDefinition(loc, def) ==
  LET r == RecordOf(loc.usr)
  IN /\ Store(loc.usr, [r EXCEPT !.decls = Append(@, loc),
                                 !.def   = IF def = Absent THEN @ ELSE def])
     /\ UNCHANGED <<hdrs, unit>>

\* AddCaller(sym, def, funcCall): Decls and Def are not touched.
IAddCaller(sym, funcCall) ==
  LET r == RecordOf(sym.usr)
  IN /\ Store(sym.usr, [r EXCEPT !.callers = Append(@, [location |-> sym,
                                                        funcCall |-> funcCall])])
     /\ UNCHANGED <<hdrs, unit>>

\* AddHeader: appended, never deduplicated.
IAddHeader(e) == hdrs' = Append(hdrs, e) /\ UNCHANGED <<index, unit>>

IAddTranslationUnit(t) == unit' = t /\ UNCHANGED <<index, hdrs>>

INext ==
  \/ \E loc \in Locs, def \in Locs \cup {Absent} :
       (def = Absent \/ def.usr = loc.usr) /\ IAddDefinition(loc, def)
  \/ \E sym \in Locs, fc \in BOOLEAN : IAddCaller(sym, fc)
  \/ \E e \in Entries : IAddHeader(e)
  \/ \E t \in Units : IAddTranslationUnit(t)

ISpec == IInit /\ [][INext]_indexVars

=============================================================================
