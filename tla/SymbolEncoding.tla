--------------------------- MODULE SymbolEncoding ---------------------------
(***************************************************************************)
(* The entity values of src/symbol/type.go (Location, Caller, Header,      *)
(* Info), their serialize methods, the view-mode accessors that read them  *)
(* back from a buffer, and the identity hashes.                            *)
(*                                                                         *)
(* A Go value of one of these types is a record holding its in-memory      *)
(* fields and `view`, the offset of the flatbuffers table it was read from *)
(* (0 = the nil *symbol.X pointer of a build-mode value).  A Location's    *)
(* `line` stands for its three uint32 scalars Line, Col and Offset, which  *)
(* are written and read the same way.                                      *)
(***************************************************************************)
EXTENDS FlatBuffers, SequencesExt

CONSTANTS
  ZeroTimeUnix,  \* time.Time{}.Unix(), the Mtime written for a zero time
  ZeroDigest     \* String() of the zero ID / FileID value

\* The empty Go string.
NoString == ""

-----------------------------------------------------------------------------
(* Identity (spec.md 4.2).  ToID and ToFileID live outside src/; they are  *)
(* a cryptographic hash, modelled as an injective constructor, and         *)
(* String() returns the digest bytes themselves.                           *)

ToID(s) == [blake2b |-> s]

ToFileID(s) == [blake2b |-> s]

IDString(id) == id

-----------------------------------------------------------------------------
(* Location                                                                *)

ZeroLocation == [fileName |-> NoString, line |-> 0, usr |-> NoString, view |-> 0]

\* A build-mode Location as the indexer creates it.
MakeLocation(fn, ln, u) == [fileName |-> fn, line |-> ln, usr |-> u, view |-> 0]

\* Location{location: obj}: a view of the Location table at offset t.
ViewLocation(t) == [ZeroLocation EXCEPT !.view = t]

\* reflect.DeepEqual reports false as soon as the dynamic types differ.
DeepEqual(x, xtype, y, ytype) == xtype = ytype /\ x = y

\* func (l *Location) isExist() bool { return !reflect.DeepEqual(l, Location{}) }
\* l is a *Location and Location{} a Location.
isExist(l) == ~DeepEqual(l, "*Location", ZeroLocation, "Location")

\* Accessors: FileName and USR fall back to the buffer only for a view;
\* Line reads the buffer unconditionally.
FileNameOf(b, l) == IF l.view = 0 THEN l.fileName ELSE StringField(b, l.view, "FileName")
USROf(b, l) == IF l.view = 0 THEN l.usr ELSE StringField(b, l.view, "USR")
LineOf(b, l) == ScalarField(b, l.view, "Line")

\* (l *Location) serialize: writes the IN-MEMORY fields only.
SerializeLocation(b, l) ==
  LET b1 == CreateString(b, l.fileName)
      b2 == CreateString(b1, l.usr)
  IN EndObject(b2, [FileName |-> Offset(b1), USR |-> Offset(b2)],
                   [Line |-> l.line])

-----------------------------------------------------------------------------
(* The two loops every collection goes through (type.go 236-244 and its    *)
(* five copies): serialize the children in order collecting offsets, then  *)
(* declare the vector and prepend the offsets from the last to the first.  *)

SerializeEach(b, xs, Ser(_, _)) ==
  FoldLeft(LAMBDA acc, x : LET nb == Ser(acc[1], x)
                           IN <<nb, Append(acc[2], Offset(nb))>>,
           <<b, <<>>>>, xs)

\* Mutant: the offsets prepended first to last (the loop of type.go 317
\* counting up).
RECURSIVE PrependOffsetsForward(_, _, _)
PrependOffsetsForward(b, offs, i) ==
  IF i < 1 THEN b
  ELSE PrependOffsetsForward(PrependUOffsetT(b, offs[(Len(offs) + 1) - i]), offs, i - 1)

RECURSIVE PrependOffsets(_, _, _)
PrependOffsets(b, offs, i) ==
  IF i < 1 THEN b ELSE PrependOffsets(PrependUOffsetT(b, offs[i]), offs, i - 1)

EncodeVector(b, offs) == EndVector(PrependOffsets(b, offs, Len(offs)), Len(offs))

\* <<buffer, vector offset>> for the collection xs.
SerializeVector(b, xs, Ser(_, _)) ==
  LET r  == SerializeEach(b, xs, Ser)
      nb == EncodeVector(r[1], r[2])
  IN <<nb, Offset(nb)>>

\* Info.serialize only writes a vector when it is non-empty (offset 0 else).
SerializeVectorIfAny(b, xs, Ser(_, _)) ==
  IF Len(xs) > 0 THEN SerializeVector(b, xs, Ser) ELSE <<b, 0>>

-----------------------------------------------------------------------------
(* Caller                                                                  *)

ViewCaller(t) == [location |-> ZeroLocation, funcCall |-> FALSE, view |-> t]

SerializeCaller(b, c) ==
  LET b1 == SerializeLocation(b, c.location)
  IN EndObject(b1, [Location |-> Offset(b1)],
                   [FuncCall |-> IF c.funcCall THEN 1 ELSE 0])

CallerLocation(b, c) == ViewLocation(RefField(b, c.view, "Location"))
CallerFuncCall(b, c) == ScalarField(b, c.view, "FuncCall") # 0

-----------------------------------------------------------------------------
(* Header: mtime holds the Unix seconds of the Go time.Time.               *)

ViewHeader(t) == [fileid |-> ZeroDigest, mtime |-> ZeroTimeUnix, view |-> t]

SerializeHeader(b, h) ==
  LET b1 == CreateString(b, IDString(h.fileid))
  IN EndObject(b1, [FileID |-> Offset(b1)], [Mtime |-> h.mtime])

HeaderFileID(b, h) == ToFileID(StringField(b, h.view, "FileID"))
HeaderMtime(b, h) == ScalarField(b, h.view, "Mtime")

-----------------------------------------------------------------------------
(* Info                                                                    *)

NewInfo(id) == [id |-> id, decls |-> <<>>, def |-> ZeroLocation,
                callers |-> <<>>, view |-> 0]

ViewInfo(t) == [NewInfo(ZeroDigest) EXCEPT !.view = t]

SerializeInfo(b, info) ==
  LET b1 == CreateString(b, IDString(info.id))
      dv == SerializeVectorIfAny(b1, info.decls, SerializeLocation)
      b3 == SerializeLocation(dv[1], info.def)
      cv == SerializeVectorIfAny(b3, info.callers, SerializeCaller)
  IN EndObject(cv[1], [ID |-> Offset(b1), Decls |-> dv[2],
                       Def |-> Offset(b3), Callers |-> cv[2]], <<>>)

\* func (info *Info) ID() ID { return ToID(string(info.info.ID())) }
InfoID(b, info) == ToID(StringField(b, info.view, "ID"))

\* Mutant: Decls() read back to front.
InfoDeclsReversed(b, info) ==
  [k \in 1..VectorLength(b, info.view, "Decls") |->
     ViewLocation(VectorElem(b, info.view, "Decls", VectorLength(b, info.view, "Decls") - k))]

InfoDecls(b, info) ==
  [k \in 1..VectorLength(b, info.view, "Decls") |->
     ViewLocation(VectorElem(b, info.view, "Decls", k - 1))]

InfoDef(b, info) == ViewLocation(RefField(b, info.view, "Def"))

InfoCallers(b, info) ==
  [k \in 1..VectorLength(b, info.view, "Callers") |->
     ViewCaller(VectorElem(b, info.view, "Callers", k - 1))]

-----------------------------------------------------------------------------
(* What a view value in buffer b reports through the type.go accessors,    *)
(* IDs aside: Location's FileName/Line/USR, Caller's Location/FuncCall,    *)
(* Info's Decls()/Def()/Callers().                                         *)

LocationSeen(b, l) == [fileName |-> FileNameOf(b, l), line |-> LineOf(b, l),
                       usr |-> USROf(b, l)]

CallerSeen(b, c) == [location |-> LocationSeen(b, CallerLocation(b, c)),
                     funcCall |-> CallerFuncCall(b, c)]

InfoSeen(b, i) ==
  [decls   |-> [k \in DOMAIN InfoDecls(b, i) |-> LocationSeen(b, InfoDecls(b, i)[k])],
   def     |-> LocationSeen(b, InfoDef(b, i)),
   callers |-> [k \in DOMAIN InfoCallers(b, i) |-> CallerSeen(b, InfoCallers(b, i)[k])]]

-----------------------------------------------------------------------------
(* Raw decoding of a buffer along the schema (internal/symbol, generated   *)
(* from the .fbs file): what the bytes say, before any accessor of         *)
(* type.go re-interprets them.  The matching *Data operators give what a   *)
(* serialize method is handed to write, from the in-memory fields.         *)

LocationData(l) == [fileName |-> l.fileName, line |-> l.line, usr |-> l.usr]

DecodeLocation(b, t) ==
  [fileName |-> StringField(b, t, "FileName"),
   line     |-> ScalarField(b, t, "Line"),
   usr      |-> StringField(b, t, "USR")]

CallerData(c) == [location |-> LocationData(c.location), funcCall |-> c.funcCall]

DecodeCaller(b, t) ==
  [location |-> DecodeLocation(b, RefField(b, t, "Location")),
   funcCall |-> ScalarField(b, t, "FuncCall") # 0]

HeaderData(h) == [fileid |-> IDString(h.fileid), mtime |-> h.mtime]

DecodeHeader(b, t) ==
  [fileid |-> StringField(b, t, "FileID"), mtime |-> ScalarField(b, t, "Mtime")]

InfoData(i) ==
  [id      |-> IDString(i.id),
   decls   |-> [k \in DOMAIN i.decls |-> LocationData(i.decls[k])],
   def     |-> LocationData(i.def),
   callers |-> [k \in DOMAIN i.callers |-> CallerData(i.callers[k])]]

DecodeInfo(b, t) ==
  [id      |-> StringField(b, t, "ID"),
   decls   |-> [k \in 1..VectorLength(b, t, "Decls") |->
                  DecodeLocation(b, VectorElem(b, t, "Decls", k - 1))],
   def     |-> DecodeLocation(b, RefField(b, t, "Def")),
   callers |-> [k \in 1..VectorLength(b, t, "Callers") |->
                  DecodeCaller(b, VectorElem(b, t, "Callers", k - 1))]]

DecodeFile(b) ==
  LET r == RootOf(b)
      elems(f) == VectorElems(b, r, f)
  IN [name    |-> StringField(b, r, "Name"),
      flags   |-> [k \in DOMAIN elems("Flags") |-> StringAt(b, elems("Flags")[k])],
      tu      |-> StringField(b, r, "TranslationUnit"),
      symbols |-> [k \in DOMAIN elems("Symbols") |-> DecodeInfo(b, elems("Symbols")[k])],
      headers |-> [k \in DOMAIN elems("Headers") |-> DecodeHeader(b, elems("Headers")[k])]]

=============================================================================
