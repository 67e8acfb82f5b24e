--------------------------- MODULE HandoffProofs ---------------------------
(***************************************************************************)
(* What holds of every session on its way, for any lists of items, any     *)
(* contents and any number of states written on the source: TLC shows only *)
(* small lists of each kind.                                               *)
(***************************************************************************)
EXTENDS Handoff, TLAPS

\* No list is Missing, so that each value of a state is written and read alone.
LEMMA EmitParse ==
  ASSUME NEW f \in {Absent} \cup States
  PROVE  /\ Emit(f) \in {Absent} \cup States /\ (Emit(f) = Absent <=> f = Absent)
         /\ Parse(f) \in {Absent} \cup States /\ (Parse(f) = Absent <=> f = Absent)
<1>1. CASE f = Absent
  BY <1>1 DEF Emit, Parse, IsState
<1>2. CASE f \in States
  <2>1. f # Absent /\ Absent \notin States
    BY <1>2, HandoffAssumption
  <2>2. [f EXCEPT !.list = Missing] \in States /\ [f EXCEPT !.list = <<>>] \in States
    <3>1. f.list \in {Missing} \cup Seq(Items) /\ f.active \in {NoFile} \cup Files
          /\ f = [list |-> f.list, active |-> f.active]
      BY <1>2 DEF States
    <3>2. \A x : [f EXCEPT !.list = x] = [list |-> x, active |-> f.active]
      BY <3>1
    <3>3. <<>> \in Seq(Items)
      OBVIOUS
    <3> QED BY <3>1, <3>2, <3>3 DEF States
  <2>3. Emit(f) \in States /\ Parse(f) \in States
    BY <1>2, <2>2 DEF Emit, Parse
  <2> QED BY <2>1, <2>3
<1> QED BY <1>1, <1>2

\* Decoding and encoding keep all but the odd text and the empty lists.
LEMMA Codec ==
  ASSUME NEW s \in Sessions
  PROVE  /\ Marshal(s) \in Sessions /\ Unmarshal(s) \in Sessions
         /\ Marshal(s).content = s.content /\ Unmarshal(s).content = s.content
         /\ Marshal(s).hash = s.hash /\ Unmarshal(s).hash = s.hash
         /\ Marshal(s).signature = s.signature /\ Unmarshal(s).signature = s.signature
         /\ Marshal(s).states = [k \in Kinds |-> Emit(s.states[k])]
         /\ Unmarshal(s).states = [k \in Kinds |-> Parse(s.states[k])]
         /\ Marshal(s).text = Escape(s.text) /\ Unmarshal(s).text = Unescape(s.text)
<1> DEFINE emitted == [k \in Kinds |-> Emit(s.states[k])]
           parsed == [k \in Kinds |-> Parse(s.states[k])]
<1>1. /\ s.states \in [Kinds -> {Absent} \cup States]
      /\ s.text \in {"plain", "odd", "escaped", "replaced"}
      /\ s = [text |-> s.text, content |-> s.content, hash |-> s.hash,
              states |-> s.states, signature |-> s.signature]
  BY DEF Sessions, Forms
<1>2. emitted \in [Kinds -> {Absent} \cup States] /\ parsed \in [Kinds -> {Absent} \cup States]
  BY <1>1, EmitParse
<1>3. /\ Escape(s.text) \in {"plain", "odd", "escaped", "replaced"}
      /\ Unescape(s.text) \in {"plain", "odd", "escaped", "replaced"}
  BY <1>1 DEF Escape, Unescape
<1> HIDE DEF emitted, parsed
<1> DEFINE out == Escape(s.text)
           in == Unescape(s.text)
<1>4. Marshal(s) = [s EXCEPT !.text = out, !.states = emitted]
  BY DEF Marshal, emitted
<1>5. Unmarshal(s) = [s EXCEPT !.text = in, !.states = parsed]
  BY DEF Unmarshal, parsed
<1> HIDE DEF out, in
<1>6. /\ Marshal(s) \in Sessions
      /\ Marshal(s).content = s.content /\ Marshal(s).hash = s.hash
      /\ Marshal(s).signature = s.signature /\ Marshal(s).states = emitted
      /\ Marshal(s).text = Escape(s.text)
  BY <1>2, <1>3, <1>4 DEF Sessions, Forms, out
<1>7. /\ Unmarshal(s) \in Sessions
      /\ Unmarshal(s).content = s.content /\ Unmarshal(s).hash = s.hash
      /\ Unmarshal(s).signature = s.signature /\ Unmarshal(s).states = parsed
      /\ Unmarshal(s).text = Unescape(s.text)
  BY <1>2, <1>3, <1>5 DEF Sessions, Forms, in
<1> QED BY <1>6, <1>7 DEF emitted, parsed

\* A second encoding or decoding changes nothing that the first one left.
LEMMA CodecTwice ==
  ASSUME NEW f \in {Absent} \cup States
  PROVE  /\ Emit(Parse(f)) = Emit(f) /\ Emit(Emit(f)) = Emit(f)
         /\ Parse(Emit(f)) = Parse(f) /\ Parse(Parse(f)) = Parse(f)
<1>1. CASE f = Absent
  BY <1>1 DEF Emit, Parse, IsState
<1>2. CASE f \in States
  <2>1. /\ f = [list |-> f.list, active |-> f.active]
        /\ f.list \in {Missing} \cup Seq(Items) /\ f.active \in {NoFile} \cup Files
    BY <1>2 DEF States
  <2>2. \A x : [f EXCEPT !.list = x] = [list |-> x, active |-> f.active]
    BY <2>1
  <2>3. <<>> \in Seq(Items) /\ Missing # <<>>
    <3>1. <<>> \in Seq(Items)
      OBVIOUS
    <3> QED BY <3>1, HandoffAssumption
  <2>4. /\ \A x \in {Missing, <<>>, f.list} : [list |-> x, active |-> f.active] \in States
        /\ \A g \in States : IsState(g)
    BY <2>1, <2>3, HandoffAssumption DEF States, IsState
  <2> DEFINE full == [list |-> <<>>, active |-> f.active]
             bare == [list |-> Missing, active |-> f.active]
  <2>5. CASE f.list \in {<<>>, Missing}
    <3>1. f \in {full, bare} /\ Emit(f) = bare /\ Parse(f) = full
      BY <1>2, <2>1, <2>2, <2>4, <2>5 DEF Emit, Parse
    <3>2. Emit(full) = bare /\ Emit(bare) = bare /\ Parse(full) = full /\ Parse(bare) = full
      BY <2>3, <2>4 DEF Emit, Parse
    <3> QED BY <3>1, <3>2
  <2>6. CASE f.list \notin {<<>>, Missing}
    BY <2>6 DEF Emit, Parse
  <2> QED BY <2>5, <2>6
<1> QED BY <1>1, <1>2

\* A state with a list is decoded as it is, and loses the list only if empty.
LEMMA EmitListed ==
  ASSUME NEW f \in States, f.list \in Seq(Items)
  PROVE  /\ IsState(f) /\ Parse(f) = f
         /\ IF f.list = <<>> THEN Emit(f).list = Missing ELSE Emit(f) = f
<1>1. IsState(f) /\ f.list # Missing
  BY HandoffAssumption DEF IsState
<1>2. [f EXCEPT !.list = Missing].list = Missing
  BY DEF States
<1> QED BY <1>1, <1>2 DEF Emit, Parse

\* What is signed tells contents and states apart, and leaves out the signature
\* (signingPayload).
LEMMA PayloadTells ==
  ASSUME NEW s \in Sessions
  PROVE  /\ Payload(s) \in Forms({Unsigned})
         /\ Payload(s).content = s.content
         /\ Payload(s).states = [k \in Kinds |-> Emit(s.states[k])]
         /\ \A g \in {Unsigned} \cup Signatures :
              LET t == [s EXCEPT !.signature = g] IN
              t \in Sessions /\ Payload(t) = Payload(s)
<1> DEFINE bare == [s EXCEPT !.signature = Unsigned]
<1>1. bare \in Sessions /\ bare.content = s.content /\ bare.states = s.states
      /\ bare.signature = Unsigned
  BY DEF Sessions, Forms
<1>2. Payload(s) = Marshal(bare)
  BY DEF Payload
<1>3. \A g \in {Unsigned} \cup Signatures :
        LET t == [s EXCEPT !.signature = g] IN
        t \in Sessions /\ [t EXCEPT !.signature = Unsigned] = bare
  BY DEF Sessions, Forms
<1>4. \A g \in {Unsigned} \cup Signatures :
        LET t == [s EXCEPT !.signature = g] IN t \in Sessions /\ Payload(t) = Payload(s)
  BY <1>2, <1>3 DEF Payload
<1> HIDE DEF bare
<1>5. Marshal(bare) \in Sessions /\ Marshal(bare).signature = Unsigned
      /\ Marshal(bare).content = s.content
      /\ Marshal(bare).states = [k \in Kinds |-> Emit(s.states[k])]
  BY <1>1, Codec
<1>6. Marshal(bare) \in Forms({Unsigned})
  BY <1>5 DEF Sessions, Forms
<1> QED BY <1>2, <1>4, <1>5, <1>6

\* Sign makes a signature, which is not the nil pointer.
LEMMA SignatureMade ==
  ASSUME NEW s \in Sessions, NEW key \in Keys
  PROVE  /\ Signature(key, s) \in Signatures /\ Signature(key, s) # Unsigned
         /\ Signature(key, s).key = key /\ Signature(key, s).payload = Payload(s)
<1>1. Signature(key, s) \in Signatures
  BY PayloadTells DEF Signature, Signatures
<1> QED BY <1>1, HandoffAssumption DEF Signature

\* Sessions that differ in nothing but their signature, and in no state but by
\* its encoding, are signed alike (signingPayload).
LEMMA PayloadSame ==
  ASSUME NEW s \in Sessions, NEW t \in Sessions,
         s.text = t.text, s.content = t.content, s.hash = t.hash,
         \A k \in Kinds : Emit(s.states[k]) = Emit(t.states[k])
  PROVE  Payload(s) = Payload(t)
<1> DEFINE out(u) == [k \in Kinds |-> Emit(u.states[k])]
<1>1. out(s) = out(t)
  OBVIOUS
<1> HIDE DEF out
<1>2. ASSUME NEW u \in Sessions
      PROVE  Payload(u) = [text |-> Escape(u.text), content |-> u.content, hash |-> u.hash,
                           states |-> out(u), signature |-> Unsigned]
  <2> DEFINE bare == [text |-> u.text, content |-> u.content, hash |-> u.hash,
                      states |-> u.states, signature |-> Unsigned]
  <2>1. [u EXCEPT !.signature = Unsigned] = bare
    BY DEF Sessions, Forms
  <2>2. Payload(u) = Marshal(bare)
    BY <2>1 DEF Payload
  <2>3. Marshal(bare) = [bare EXCEPT !.text = Escape(u.text), !.states = out(u)]
    BY DEF Marshal, out
  <2> QED BY <2>2, <2>3
<1> QED BY <1>1, <1>2

\* Going through the kinds in order, one is never met twice.
LEMMA Rests ==
  ASSUME rest \in {InOrder, <<"terminal", "browser">>, <<"browser">>, <<>>}
  PROVE  /\ Range(InOrder) = Kinds
         /\ Range(<<>>) = {}
         /\ rest # <<>> => /\ Head(rest) \in Kinds
                           /\ Tail(rest) \in {InOrder, <<"terminal", "browser">>, <<"browser">>, <<>>}
                           /\ Head(rest) \in Range(rest)
                           /\ Range(Tail(rest)) = Range(rest) \ {Head(rest)}
<1>1. Range(InOrder) = Kinds
  BY DEF Range, InOrder, Kinds
<1>2. Range(<<>>) = {}
  BY DEF Range
<1>3. CASE rest = InOrder
  <2>1. Head(rest) = "editor" /\ Tail(rest) = <<"terminal", "browser">> /\ rest = <<"editor", "terminal", "browser">>
    BY <1>3 DEF InOrder
  <2>2. Range(<<"terminal", "browser">>) = {"terminal", "browser"}
    BY DEF Range
  <2>3. Range(rest) = {"editor", "terminal", "browser"}
    BY <2>1 DEF Range
  <2> QED BY <1>1, <1>2, <2>1, <2>2, <2>3 DEF Kinds
<1>4. CASE rest = <<"terminal", "browser">>
  <2>1. Head(rest) = "terminal" /\ Tail(rest) = <<"browser">>
    BY <1>4
  <2>2. Range(<<"browser">>) = {"browser"}
    BY DEF Range
  <2>3. Range(rest) = {"terminal", "browser"}
    BY <1>4 DEF Range
  <2> QED BY <1>1, <1>2, <2>1, <2>2, <2>3 DEF Kinds
<1>5. CASE rest = <<"browser">>
  <2>1. Head(rest) = "browser" /\ Tail(rest) = <<>>
    BY <1>5
  <2>3. Range(rest) = {"browser"}
    BY <1>5 DEF Range
  <2> QED BY <1>1, <1>2, <2>1, <2>3 DEF Kinds
<1> QED BY <1>1, <1>2, <1>3, <1>4, <1>5

-----------------------------------------------------------------------------
(* Types. *)

\* The kinds that are listed are states of their kind.
LEMMA ListsAreStates ==
  ASSUME NEW k \in Kinds, NEW list \in Lists[k],
         NEW active \in (IF k = "editor" THEN Files ELSE {}) \cup {NoFile}
  PROVE  [list |-> list, active |-> active] \in States
<1>1. list \in Seq(Items)
  BY HandoffAssumption
<1>2. active \in {NoFile} \cup Files
  OBVIOUS
<1> QED BY <1>1, <1>2 DEF States

LEMMA TypeInit == Init => HandoffTypeOK
<1> SUFFICES ASSUME Init PROVE HandoffTypeOK
  OBVIOUS
<1> USE HandoffAssumption DEF Init
<1>1. session \in Sessions
  BY DEF Sessions, Forms, NoStates
<1>2. dest \in [Kinds -> {Absent, Torn} \cup States]
  <2>1. PICK f \in {Absent, Torn} \cup [list : Lists["editor"], active : {NoFile}] :
          dest = [NoStates EXCEPT !["editor"] = f]
    OBVIOUS
  <2>2. f \in {Absent, Torn} \cup States
    BY <2>1 DEF States, Kinds
  <2> QED BY <2>1, <2>2 DEF NoStates, Kinds
<1>3. source \in [Kinds -> {Absent, Torn} \cup States]
  BY DEF NoStates
<1> QED BY <1>1, <1>2, <1>3 DEF HandoffTypeOK, Stages

\* The writers of state files (CreateState, WriteState).
LEMMA SourceTyped ==
  ASSUME HandoffTypeOK, NEW k \in Kinds, CreateState(k) \/ WriteState(k)
  PROVE  HandoffTypeOK'
<1> USE DEF HandoffTypeOK, journey, options, target, opening
<1>1. CASE CreateState(k)
  BY <1>1 DEF CreateState
<1>2. CASE WriteState(k)
  <2>1. PICK list \in Lists[k], active \in (IF k = "editor" THEN Files ELSE {}) \cup {NoFile} :
          /\ source' = [source EXCEPT ![k] = [list |-> list, active |-> active]]
          /\ history' = [history EXCEPT ![k] = @ \cup {source'[k]}]
    BY <1>2 DEF WriteState
  <2> DEFINE f == [list |-> list, active |-> active]
  <2>2. f \in States
    BY ListsAreStates
  <2> HIDE DEF f
  <2>3. source' = [source EXCEPT ![k] = f]
    BY <2>1 DEF f
  <2>4. source'[k] = f
    BY <2>3
  <2>5. history' = [history EXCEPT ![k] = history[k] \cup {f}]
    BY <2>1, <2>4
  <2> QED BY <1>2, <2>2, <2>3, <2>5 DEF WriteState
<1> QED BY <1>1, <1>2

\* The capture of the states.
LEMMA CaptureTyped ==
  ASSUME HandoffTypeOK, Start \/ ReadState \/ Sign PROVE HandoffTypeOK'
<1> USE DEF HandoffTypeOK, origin, options, target, opening, Stages, Hops, Ended
<1>1. CASE Start
  BY <1>1 DEF Start
<1>2. CASE ReadState
  <2>1. CASE source[Head(rest)] = Torn
    BY <1>2, <2>1 DEF ReadState
  <2>2. CASE source[Head(rest)] # Torn
    <3>1. /\ session' = [session EXCEPT !.states[Head(rest)] = Parse(source[Head(rest)])]
          /\ rest' = Tail(rest)
      BY <1>2, <2>2 DEF ReadState
    <3>2. Head(rest) \in Kinds /\ rest' \in {InOrder, <<"terminal", "browser">>, <<"browser">>, <<>>}
      BY <1>2, <3>1, Rests DEF ReadState
    <3>3. Parse(source[Head(rest)]) \in {Absent} \cup States
      BY <2>2, <3>2, EmitParse
    <3>4. session' \in Sessions
      BY <3>1, <3>2, <3>3 DEF Sessions, Forms
    <3> QED BY <1>2, <2>2, <3>2, <3>4 DEF ReadState
  <2> QED BY <2>1, <2>2
<1>3. CASE Sign
  <2>1. Signature(Own, session) \in Signatures
    BY SignatureMade, HandoffAssumption
  <2>2. session' \in Sessions
    <3>1. [session EXCEPT !.signature = Signature(Own, session)] \in Sessions
      BY <2>1 DEF Sessions, Forms
    <3> QED BY <1>3, <3>1 DEF Sign
  <2>3. Marshal(session') \in Sessions
    BY <2>2, Codec
  <2> QED BY <1>3, <2>2, <2>3 DEF Sign
<1> QED BY <1>1, <1>2, <1>3

\* Only the source makes a signature with its key (Sign).
LEMMA AlterMakes ==
  ASSUME NEW w \in Sessions, Alter(w)
  PROVE  wire' \in Sessions /\ (wire'.signature = w.signature \/ ~ SignedBy(wire', Own))
<1>1. CASE wire' = w
  BY <1>1
<1>2. CASE wire' = [w EXCEPT !.signature = Unsigned]
  BY <1>2 DEF Sessions, Forms, SignedBy
<1>3. CASE \E key \in Keys \ {Own} : wire' = [w EXCEPT !.signature = Signature(key, Unmarshal(w))]
  <2>1. PICK key \in Keys \ {Own} : wire' = [w EXCEPT !.signature = Signature(key, Unmarshal(w))]
    BY <1>3
  <2> DEFINE g == Signature(key, Unmarshal(w))
  <2>2. g \in Signatures /\ g.key = key
    BY Codec, SignatureMade
  <2> HIDE DEF g
  <2>3. wire' = [w EXCEPT !.signature = g]
    BY <2>1 DEF g
  <2>4. wire' \in Sessions /\ wire'.signature = g
    BY <2>2, <2>3 DEF Sessions, Forms
  <2> QED BY <2>2, <2>4 DEF SignedBy
<1> QED BY <1>1, <1>2, <1>3 DEF Alter

\* What may become of the text on its way: it stays a session, or is cut off, and
\* if the source signed it, it did so before.
LEMMA DamageMakes ==
  ASSUME HandoffTypeOK, WireInv, Damage
  PROVE  wire \in Sessions /\ wire' \in {Torn} \cup Sessions
         /\ (wire' # Torn => wire'.signature = wire.signature \/ ~ SignedBy(wire', Own))
<1>1. wire \in Sessions
  BY DEF HandoffTypeOK, WireInv, Damage
<1>2. CASE wire' = Torn
  BY <1>1, <1>2
<1>3. CASE \E c, h \in Contents : Alter([wire EXCEPT !.content = c, !.hash = h])
  <2>1. PICK c \in Contents, h \in Contents : Alter([wire EXCEPT !.content = c, !.hash = h])
    BY <1>3
  <2> DEFINE w == [wire EXCEPT !.content = c, !.hash = h]
  <2>2. w \in Sessions /\ w.signature = wire.signature
    BY <1>1 DEF Sessions, Forms
  <2>3. Alter(w)
    BY <2>1
  <2> HIDE DEF w
  <2> QED BY <1>1, <2>2, <2>3, AlterMakes
<1>4. CASE \E list \in Lists["editor"] :
             Alter([wire EXCEPT !.states["editor"] = [list |-> list, active |-> NoFile]])
  <2>1. PICK list \in Lists["editor"] :
          Alter([wire EXCEPT !.states["editor"] = [list |-> list, active |-> NoFile]])
    BY <1>4
  <2> DEFINE f == [list |-> list, active |-> NoFile]
             w == [wire EXCEPT !.states["editor"] = f]
  <2>2. f \in States /\ "editor" \in Kinds
    BY ListsAreStates DEF Kinds
  <2>3. Alter(w)
    BY <2>1
  <2> HIDE DEF f
  <2>4. w \in Sessions /\ w.signature = wire.signature
    BY <1>1, <2>2 DEF Sessions, Forms
  <2> HIDE DEF w
  <2> QED BY <1>1, <2>3, <2>4, AlterMakes
<1> QED BY <1>2, <1>3, <1>4 DEF Damage

LEMMA RelayMakes ==
  ASSUME HandoffTypeOK, Relay, Readable(wire)
  PROVE  /\ wire \in Sessions /\ wire # Torn
         /\ wire' \in Sessions
         /\ wire'.signature = wire.signature
         /\ wire'.content = wire.content /\ wire'.hash = wire.hash
<1>1. wire \in Sessions /\ wire # Torn
  BY DEF HandoffTypeOK, Readable
<1>2. wire' = Marshal(Unmarshal(wire))
  BY DEF Relay
<1> QED BY <1>1, <1>2, Codec

\* What the destination has.
LEMMA TargetTyped ==
  ASSUME HandoffTypeOK, RestoreStep PROVE HandoffTypeOK'
<1> USE DEF HandoffTypeOK, origin, options, target, opening, Stages, Hops, Ended
<1>0. CASE BeginRestore
  BY <1>0 DEF BeginRestore
<1>1. CASE Accept
  <2>1. CASE Readable(wire)
    <3>1. Unmarshal(wire) \in Sessions
      BY <2>1, Codec DEF Readable
    <3> QED BY <1>1, <3>1 DEF Accept
  <2>2. CASE ~ Readable(wire)
    BY <1>1, <2>2 DEF Accept
  <2> QED BY <2>1, <2>2
<1>2. CASE PutContent
  <2>1. session.content \in Contents
    BY DEF Sessions, Forms
  <2> QED BY <1>2, <2>1 DEF PutContent
<1>3. CASE PutState
  <2>1. /\ Head(rest) \in Kinds
        /\ rest' \in {rest, Tail(rest)}
        /\ Tail(rest) \in {InOrder, <<"terminal", "browser">>, <<"browser">>, <<>>}
    BY <1>3, Rests DEF PutState
  <2>2. session.states[Head(rest)] \in {Absent} \cup States
    BY <2>1 DEF Sessions, Forms
  <2>3. Emit(session.states[Head(rest)]) \in {Absent} \cup States
    BY <2>2, EmitParse
  <2>4. dest' \in [Kinds -> {Absent, Torn} \cup States]
    BY <1>3, <2>1, <2>3 DEF PutState
  <2> QED BY <1>3, <2>1, <2>4 DEF PutState
<1>4. CASE Restored
  BY <1>4 DEF Restored
<1>5. CASE Fail
  BY <1>5 DEF Fail
<1> QED BY <1>0, <1>1, <1>2, <1>3, <1>4, <1>5 DEF RestoreStep

-----------------------------------------------------------------------------
(* The parts of the invariant, step by step. *)

LEMMA CarriedInit == Init => CarriedInv
<1> SUFFICES ASSUME Init PROVE CarriedInv
  OBVIOUS
<1>1. content \notin Contents
  BY HandoffAssumption DEF Init
<1>2. session.signature = Unsigned /\ session.hash = session.content
  BY DEF Init
<1>3. SourceInv
  BY DEF Init, SourceInv, NoStates, Hops
<1>4. WireInv
  BY <1>2 DEF Init, WireInv, Hops
<1>5. TargetInv
  BY <1>1 DEF Init, TargetInv, Delivered, Hops
<1> QED BY <1>3, <1>4, <1>5, TypeInit DEF CarriedInv

\* A half state file replaces one that was there, and is replaced by a state.
LEMMA SourceKeeps ==
  ASSUME CarriedInv, NEW k \in Kinds, CreateState(k) \/ WriteState(k) PROVE CarriedInv'
<1> USE DEF CarriedInv, journey, options, target, opening
<1>1. HandoffTypeOK'
  BY SourceTyped
<1>2. /\ UNCHANGED <<pc, rest, known, session, wire, captured, damaged, required, trusted,
                    before, dest, content>>
      /\ pc \in {"idle", "capture"}
      /\ source' = [source EXCEPT ![k] = source'[k]]
      /\ source'[k] # Absent /\ source'[k] \in {Torn} \cup history'[k]
      /\ \A j \in Kinds : history[j] \subseteq history'[j]
  <2>1. CASE CreateState(k)
    BY <2>1, HandoffAssumption DEF CreateState, Unread, HandoffTypeOK
  <2>2. CASE WriteState(k)
    <3>1. PICK f : source' = [source EXCEPT ![k] = f] /\ history' = [history EXCEPT ![k] = @ \cup {source'[k]}]
      BY <2>2 DEF WriteState
    <3>2. source'[k] = f /\ history'[k] = history[k] \cup {f}
          /\ \A j \in Kinds : j # k => history'[j] = history[j]
      BY <3>1 DEF HandoffTypeOK
    <3>3. f # Absent
      BY <1>1, <3>2, HandoffAssumption DEF HandoffTypeOK
    <3> QED BY <2>2, <3>1, <3>2, <3>3 DEF WriteState, Unread
  <2> QED BY <2>1, <2>2
<1>4. SourceInv'
  <2>1. \A j \in Kinds : source'[j] \in {Absent, Torn} \cup history'[j]
    BY <1>2 DEF SourceInv, HandoffTypeOK
  <2>2. \A j \in known : source'[j] # Absent
    BY <1>2 DEF SourceInv, HandoffTypeOK
  <2>3. pc = "capture" => \A j \in Kinds \ Range(rest) : Read(j, session.states[j])'
    BY <1>2 DEF SourceInv, Read
  <2> QED BY <1>2, <2>1, <2>2, <2>3 DEF SourceInv, Hops
<1>5. WireInv'
  BY <1>2 DEF WireInv, Hops
<1>6. TargetInv'
  BY <1>2 DEF TargetInv, Accepted, Genuine, Delivered, Placed, Hops
<1> QED BY <1>1, <1>4, <1>5, <1>6

\* The source signs with its key, or not at all (signSessionFromWorkspace).
LEMMA Signed ==
  ASSUME CarriedInv, Sign
  PROVE  \E g \in {Unsigned, Signature(Own, session)} :
           session' = [session EXCEPT !.signature = g] /\ captured' = session'
<1>1. session.signature = Unsigned
  BY DEF CarriedInv, WireInv, Sign
<1>2. session = [session EXCEPT !.signature = Unsigned]
  BY <1>1 DEF CarriedInv, HandoffTypeOK, Sessions, Forms
<1> QED BY <1>2 DEF Sign

\* Capture reads whole states only, and each kind once (runCapture).
LEMMA CaptureKeeps ==
  ASSUME CarriedInv, Start \/ ReadState \/ Sign PROVE CarriedInv'
<1> USE DEF CarriedInv, origin, options, target, opening
<1>1. HandoffTypeOK'
  BY CaptureTyped
<1>2. CASE Start
  <2>1. SourceInv'
    <3>1. Kinds \ Range(InOrder) = {}
      BY Rests DEF HandoffTypeOK
    <3> QED BY <1>2, <3>1 DEF Start, SourceInv, Hops
  <2>2. WireInv'
    BY <1>2 DEF Start, WireInv, Hops
  <2>3. TargetInv'
    BY <1>2 DEF Start, TargetInv, Delivered, Hops
  <2> QED BY <1>1, <2>1, <2>2, <2>3
<1>3. CASE ReadState
  <2>1. ~ Delivered /\ pc = "capture" /\ dest = before
    BY <1>3 DEF TargetInv, ReadState
  <2>2. CASE source[Head(rest)] = Torn
    <3>1. pc' = "failed"
      BY <1>3, <2>2 DEF ReadState
    <3>2. SourceInv'
      BY <1>3, <3>1 DEF ReadState, SourceInv, Hops
    <3>3. WireInv' /\ TargetInv'
      BY <1>3, <2>1, <3>1 DEF ReadState, WireInv, TargetInv, Delivered, Hops
    <3> QED BY <1>1, <3>2, <3>3
  <2>3. CASE source[Head(rest)] # Torn
    <3> DEFINE k == Head(rest)
               s == Parse(source[k])
    <3>1. /\ session' = [session EXCEPT !.states[k] = s]
          /\ rest' = Tail(rest) /\ pc' = pc
      BY <1>3, <2>3 DEF ReadState
    <3>2. k \in Kinds /\ Range(rest') = Range(rest) \ {k} /\ rest' \in {InOrder, <<"terminal", "browser">>, <<"browser">>, <<>>}
      BY <1>3, <3>1, Rests DEF ReadState, HandoffTypeOK
    <3>3. Read(k, s)
      <4>1. CASE source[k] = Absent
        BY <2>1, <3>2, <4>1, EmitParse DEF SourceInv, Read
      <4>2. CASE source[k] # Absent
        <5>1. source[k] \in history[k]
          BY <2>3, <3>2, <4>2 DEF SourceInv
        <5>2. s # Absent
          BY <2>3, <3>2, <4>2, EmitParse DEF HandoffTypeOK
        <5> QED BY <5>1, <5>2 DEF Read
      <4> QED BY <4>1, <4>2
    <3> HIDE DEF k, s
    <3>4. /\ session'.states = [session.states EXCEPT ![k] = s]
          /\ session'.content = session.content /\ session'.hash = session.hash
          /\ session'.signature = session.signature
      BY <3>1, <3>2 DEF HandoffTypeOK, Sessions, Forms
    <3>5. session'.states[k] = s /\ \A j \in Kinds : j # k => session'.states[j] = session.states[j]
      BY <3>2, <3>4 DEF HandoffTypeOK, Sessions, Forms
    <3>6. UNCHANGED <<source, history, known, captured, wire, damaged, dest, before, content>>
      BY <1>3 DEF ReadState
    <3>7. \A j \in Kinds \ Range(rest') : Read(j, session'.states[j])
      BY <2>1, <3>2, <3>3, <3>5 DEF SourceInv
    <3>8. SourceInv'
      BY <2>1, <3>1, <3>6, <3>7 DEF SourceInv, Hops, Read
    <3>9. WireInv'
      BY <2>1, <3>1, <3>4, <3>6 DEF WireInv, Hops
    <3>10. TargetInv'
      BY <2>1, <3>1, <3>6 DEF TargetInv, Delivered, Hops
    <3> QED BY <1>1, <3>8, <3>9, <3>10
  <2> QED BY <2>2, <2>3
<1>4. CASE Sign
  <2>1. ~ Delivered /\ pc = "capture" /\ dest = before /\ pc' = "written" /\ rest = <<>>
    BY <1>4 DEF TargetInv, Sign
  <2>2. UNCHANGED <<source, history, dest, before, content>> /\ known' = {}
    BY <1>4 DEF Sign
  <2>3. PICK g \in {Unsigned, Signature(Own, session)} :
          session' = [session EXCEPT !.signature = g] /\ captured' = session'
    BY <1>4, Signed
  <2>4. g \in {Unsigned} \cup Signatures
        /\ (g # Unsigned => g = Signature(Own, session) /\ g.payload = Payload(session))
    BY SignatureMade, HandoffAssumption DEF HandoffTypeOK
  <2>5. session' \in Sessions /\ Payload(session') = Payload(session)
    BY <2>3, <2>4, PayloadTells DEF HandoffTypeOK
  <2>6. /\ session'.states = session.states /\ session'.content = session.content
        /\ session'.hash = session.hash /\ session'.signature = g
    BY <2>3 DEF HandoffTypeOK, Sessions, Forms
  <2>7. SourceInv'
    <3>1. \A k \in Kinds : Read(k, session.states[k])
      BY <2>1, Rests DEF SourceInv, HandoffTypeOK
    <3>2. \A k \in Kinds : Read(k, captured'.states[k])
      BY <2>3, <2>6, <3>1
    <3> QED BY <2>1, <2>2, <3>2 DEF SourceInv, Hops, Read
  <2>8. g = Unsigned \/ g.payload = Payload(captured')
    BY <2>3, <2>4, <2>5
  <2>9. Marshal(session') \in Sessions /\ Marshal(session').signature = g
        /\ Marshal(session').content = session'.content /\ Marshal(session').hash = session'.hash
    BY <2>5, <2>6, Codec
  <2>10. WireInv'
    <3>1. (wire' = Marshal(session') /\ ~ damaged') \/ (wire' = Torn /\ damaged')
      BY <1>4, <2>1 DEF Sign, WireInv
    <3>2. Marshal(session') # Torn
      BY <2>9, HandoffAssumption
    <3> QED BY <2>1, <2>3, <2>6, <2>8, <2>9, <3>1, <3>2 DEF WireInv, Genuine, SignedBy, Hops
  <2>11. TargetInv'
    BY <2>1, <2>2 DEF TargetInv, Delivered, Hops
  <2> QED BY <1>1, <2>7, <2>10, <2>11
<1> QED BY <1>2, <1>3, <1>4

\* Damage makes no signature of the source, and decoding and encoding change none
\* (session.ReadJSON, session.WriteJSON).
LEMMA WireKeeps == ASSUME CarriedInv, Damage \/ Relay PROVE CarriedInv'
<1> USE DEF CarriedInv, origin, options, target, opening
<1>1. UNCHANGED <<source, history, rest, known, session, captured, required, trusted,
                  before, dest, content>>
  BY DEF Damage, Relay
<1>2. pc \in Hops /\ pc' \in Hops \cup {"refused"} /\ ~ Delivered /\ dest = before
  BY DEF Damage, Relay, TargetInv, Hops
<1>3. wire' \in {Torn} \cup Sessions /\ damaged' \in BOOLEAN
  <2>1. CASE Damage
    BY <2>1, DamageMakes DEF Damage
  <2>2. CASE Relay
    BY <2>2, RelayMakes DEF Relay, HandoffTypeOK
  <2> QED BY <2>1, <2>2
<1>4. HandoffTypeOK'
  BY <1>1, <1>2, <1>3 DEF HandoffTypeOK, Stages, Hops, Ended
<1>5. SourceInv'
  BY <1>1, <1>2 DEF SourceInv, Hops, Read
<1>6. WireInv'
  <2>1. CASE Damage
    BY <1>1, <1>2, <2>1, DamageMakes DEF Damage, WireInv, Genuine, SignedBy, Hops
  <2>2. CASE Relay /\ Readable(wire)
    <3>1. /\ wire # Torn /\ wire' \in Sessions /\ wire'.signature = wire.signature
          /\ wire'.content = wire.content /\ wire'.hash = wire.hash
      BY <2>2, RelayMakes
    <3>2. wire' # Torn
      BY <3>1, HandoffAssumption
    <3>3. damaged' = damaged /\ captured' = captured /\ pc' \in Hops
      BY <1>1, <2>2 DEF Relay, Hops
    <3>4. captured.hash = captured.content /\ Genuine(wire)
          /\ (~ damaged => wire.content = captured.content /\ wire.hash = captured.hash)
      BY <1>2, <3>1 DEF WireInv
    <3>5. Genuine(wire)'
      BY <3>1, <3>3, <3>4 DEF Genuine, SignedBy
    <3> QED BY <3>1, <3>2, <3>3, <3>4, <3>5 DEF WireInv, Hops
  <2>3. CASE Relay /\ ~ Readable(wire)
    BY <1>1, <1>2, <2>3 DEF Relay, WireInv, Hops
  <2> QED BY <2>1, <2>2, <2>3
<1>7. TargetInv'
  BY <1>1, <1>2 DEF TargetInv, Delivered, Hops
<1> QED BY <1>4, <1>5, <1>6, <1>7

\* The flags change nothing of what is carried.
LEMMA BeginKeeps == ASSUME CarriedInv, BeginRestore PROVE CarriedInv'
<1>1. /\ UNCHANGED <<source, history, rest, known, session, wire, captured, damaged,
                     before, dest, content>>
      /\ pc = "stored" /\ pc' = "restore"
  BY DEF BeginRestore, origin, target
<1>2. HandoffTypeOK'
  BY TargetTyped DEF CarriedInv, RestoreStep
<1>3. SourceInv'
  BY <1>1 DEF CarriedInv, SourceInv, Hops, Read
<1>4. WireInv'
  BY <1>1 DEF CarriedInv, WireInv, Genuine, SignedBy, Hops
<1>5. TargetInv'
  BY <1>1 DEF CarriedInv, TargetInv, Delivered, Hops
<1> QED BY <1>2, <1>3, <1>4, <1>5 DEF CarriedInv

\* What restore accepts is what was signed, or at least goes with its hash
\* (readSessionFile, verifyTrustedSession, planApplyFiles).
LEMMA AcceptKeeps == ASSUME CarriedInv, Accept PROVE CarriedInv'
<1> USE DEF CarriedInv, origin, options, target, opening
<1>1. HandoffTypeOK'
  BY TargetTyped DEF RestoreStep
<1>2. UNCHANGED <<source, history, rest, known, wire, captured, damaged, required, trusted,
                  before, dest, content>>
  BY DEF Accept
<1>3. pc = "restore" /\ pc' \in {"put content", "refused"} /\ ~ Delivered /\ dest = before
  BY DEF Accept, TargetInv, Hops
<1>4. SourceInv' /\ WireInv'
  BY <1>2, <1>3 DEF SourceInv, WireInv, Hops, Read
<1>5. pc' = "put content" => Accepted'
  <2> SUFFICES ASSUME pc' = "put content" PROVE Accepted'
    OBVIOUS
  <2> DEFINE s == Unmarshal(wire)
  <2>1. /\ session' = s /\ Readable(wire) /\ (required => Trusted(s))
        /\ s.hash = s.content
    BY DEF Accept
  <2>2. wire \in Sessions /\ wire # Torn
    BY <2>1 DEF HandoffTypeOK, Readable
  <2>3. s.signature = wire.signature /\ s.content = wire.content
    BY <2>2, Codec
  <2>4. s.signature # Unsigned => s.signature.payload = Payload(s)
    BY <2>1 DEF Readable, Valid
  <2>5. /\ captured.hash = captured.content
        /\ Genuine(wire)
        /\ ~ damaged => wire.content = captured.content
    BY <1>3, <2>2 DEF WireInv, Hops
  <2> HIDE DEF s
  <2> QED BY <1>2, <2>1, <2>3, <2>4, <2>5 DEF Accepted, Genuine, SignedBy, Trusted
<1>6. TargetInv'
  BY <1>2, <1>3, <1>5 DEF TargetInv, Delivered, Hops
<1> QED BY <1>1, <1>4, <1>6

\* The content and each state file are the session's (applyChangedFiles,
\* WriteWorkspace).
LEMMA RestoreKeeps ==
  ASSUME CarriedInv, PutContent \/ PutState \/ Restored \/ Fail PROVE CarriedInv'
<1> USE DEF CarriedInv, origin, options, opening
<1>1. HandoffTypeOK'
  BY TargetTyped DEF RestoreStep
<1>2. UNCHANGED <<source, history, known, session, wire, captured, damaged, required, trusted, before>>
  BY DEF PutContent, PutState, Restored, Fail, target
<1>3. pc \in {"put content", "put states"} /\ pc' \in {"put states", "done", "failed"}
  BY DEF PutContent, PutState, Restored, Fail
<1>4. SourceInv' /\ WireInv'
  BY <1>2, <1>3 DEF SourceInv, WireInv, Hops, Read
<1>5. Accepted'
  BY <1>2, <1>3 DEF TargetInv, Accepted, Genuine, SignedBy, Trusted
<1>6. CASE PutContent
  <2>1. \A k \in Kinds : dest'[k] = before[k]
    BY <1>6 DEF PutContent, TargetInv
  <2>2. \A k \in Kinds : k \in Range(rest')
    BY <1>6, Rests DEF PutContent, HandoffTypeOK
  <2>3. content' = session.content /\ pc' = "put states" /\ session.content \in Contents
    BY <1>6 DEF PutContent, HandoffTypeOK, Sessions, Forms
  <2>4. TargetInv'
    BY <1>2, <1>5, <2>1, <2>2, <2>3 DEF TargetInv, Delivered, Hops
  <2> QED BY <1>1, <1>4, <2>4
<1>7. CASE PutState
  <2> DEFINE k == Head(rest)
             s == session.states[k]
  <2>1. /\ k \in Kinds /\ k \in Range(rest)
        /\ Range(Tail(rest)) = Range(rest) \ {k}
    BY <1>7, Rests DEF PutState, HandoffTypeOK
  <2>2. /\ pc = "put states" /\ pc' = pc /\ content' = content
        /\ \/ s = Absent /\ rest' = Tail(rest) /\ dest' = dest
           \/ s # Absent /\ dest' = [dest EXCEPT ![k] = Torn] /\ rest' = rest
           \/ s # Absent /\ dest' = [dest EXCEPT ![k] = Emit(s)] /\ rest' = Tail(rest)
    BY <1>7 DEF PutState
  <2>3. \A j \in Kinds : j # k => dest'[j] = dest[j]
    BY <2>2 DEF HandoffTypeOK
  <2>4. dest'[k] \in {dest[k], Torn, Emit(s)}
    BY <2>1, <2>2 DEF HandoffTypeOK
  <2>5. \A j \in Kinds : dest'[j] \in {before[j], Torn, Emit(session.states[j])}
    BY <2>2, <2>3, <2>4 DEF TargetInv
  <2>6. IF k \in Range(rest')
          THEN s = Absent => dest'[k] = before[k]
          ELSE dest'[k] = IF s = Absent THEN before[k] ELSE Emit(s)
    BY <2>1, <2>2 DEF TargetInv, HandoffTypeOK
  <2>7. \A j \in Kinds : j # k => (j \in Range(rest') <=> j \in Range(rest))
    BY <2>1, <2>2
  <2> HIDE DEF k, s
  <2>8. \A j \in Kinds : IF j \in Range(rest')
                           THEN session.states[j] = Absent => dest'[j] = before[j]
                           ELSE dest'[j] = IF session.states[j] = Absent THEN before[j]
                                           ELSE Emit(session.states[j])
    BY <2>2, <2>3, <2>6, <2>7 DEF TargetInv, Placed, s
  <2>9. TargetInv'
    BY <1>2, <1>5, <2>2, <2>5, <2>8 DEF TargetInv, Placed, Delivered, Hops
  <2> QED BY <1>1, <1>4, <2>9
<1>8. CASE Restored
  <2>1. \A j \in Kinds : Placed(j)
    BY <1>8, Rests DEF Restored, TargetInv, HandoffTypeOK
  <2>2. TargetInv'
    BY <1>2, <1>5, <1>8, <2>1 DEF Restored, target, TargetInv, Placed, Delivered, Hops
  <2> QED BY <1>1, <1>4, <2>2
<1>9. CASE Fail
  <2>1. /\ pc' = "failed" /\ dest' = dest /\ Torn \notin Contents
        /\ content' = content \/ (~ Delivered /\ content' = Torn)
    BY <1>9, HandoffAssumption DEF Fail, TargetInv
  <2>2. Delivered' => Delivered /\ content' = content
    BY <2>1 DEF Delivered
  <2>3. ~ Delivered' => dest = before
    BY <1>9, <2>1 DEF TargetInv, Delivered, Fail
  <2>4. TargetInv'
    BY <1>2, <1>5, <2>1, <2>2, <2>3 DEF TargetInv
  <2> QED BY <1>1, <1>4, <2>4
<1> QED BY <1>6, <1>7, <1>8, <1>9

\* Whoever opens the states changes none of them.
LEMMA OpenKeeps == ASSUME CarriedInv, OpenStep \/ UNCHANGED vars PROVE CarriedInv'
<1>1. UNCHANGED <<origin, journey, options, target>>
  BY DEF OpenStep, ReadView, OpenItem, Opened, vars
<1>2. UNCHANGED <<source, history, pc, rest, known, session, wire, captured, damaged,
                  required, trusted, before, dest, content>>
  BY <1>1 DEF origin, journey, options, target
<1>3. HandoffTypeOK'
  BY <1>2 DEF CarriedInv, HandoffTypeOK
<1>4. SourceInv'
  BY <1>2 DEF CarriedInv, SourceInv, Read
<1>5. WireInv'
  BY <1>2 DEF CarriedInv, WireInv, Genuine, SignedBy
<1>6. TargetInv'
  BY <1>2 DEF CarriedInv, TargetInv, Accepted, Genuine, SignedBy, Trusted, Delivered, Placed
<1> QED BY <1>3, <1>4, <1>5, <1>6 DEF CarriedInv

LEMMA CarriedStep == CarriedInv /\ [Next]_vars => CarriedInv'
BY SourceKeeps, CaptureKeeps, WireKeeps, BeginKeeps, AcceptKeeps, RestoreKeeps, OpenKeeps
   DEF Next, SourceStep, RestoreStep

-----------------------------------------------------------------------------
(* What is undamaged is accepted, and what was open reaches the destination. *)

LEMMA IntactInit == Init => IntactInv
<1> SUFFICES ASSUME Init PROVE IntactInv
  OBVIOUS
<1>1. content \notin Contents /\ pc = "idle" /\ session.text \in {"plain", "odd"}
  BY HandoffAssumption DEF Init
<1>2. \A k \in Kinds : history[k] = {}
  BY DEF Init
<1>3. \A k \in Kinds : IsState(before[k]) => before[k].list \in Lists[k]
  <2>1. PICK f \in {Absent, Torn} \cup [list : Lists["editor"], active : {NoFile}] :
          before = [NoStates EXCEPT !["editor"] = f]
    BY DEF Init
  <2>2. IsState(f) => f.list \in Lists["editor"]
    BY <2>1 DEF IsState
  <2>3. \A k \in Kinds : before[k] = IF k = "editor" THEN f ELSE Absent
    BY <2>1 DEF NoStates
  <2> QED BY <2>2, <2>3 DEF IsState
<1> QED BY <1>1, <1>2, <1>3 DEF IntactInv, Delivered, SoundIsAccepted, Hops

\* A writer writes what is open (WriteState).
LEMMA SourceIntact ==
  ASSUME HandoffInv, NEW k \in Kinds, CreateState(k) \/ WriteState(k) PROVE IntactInv'
<1>1. /\ UNCHANGED <<pc, session, captured, wire, damaged, required, trusted, before, content>>
      /\ pc \in {"idle", "capture"} /\ ~ Delivered
  BY DEF HandoffInv, CarriedInv, TargetInv, CreateState, WriteState, Unread, journey, options, target
<1>2. \A j \in Kinds : \A f \in history'[j] : f.list \in Lists[j]
  <2>1. CASE CreateState(k)
    BY <2>1 DEF CreateState, HandoffInv, IntactInv
  <2>2. CASE WriteState(k)
    <3>1. PICK list \in Lists[k], active \in (IF k = "editor" THEN Files ELSE {}) \cup {NoFile} :
            /\ source' = [source EXCEPT ![k] = [list |-> list, active |-> active]]
            /\ history' = [history EXCEPT ![k] = @ \cup {source'[k]}]
      BY <2>2 DEF WriteState
    <3>2. source'[k].list = list
      BY <3>1 DEF HandoffInv, CarriedInv, HandoffTypeOK
    <3>3. \A j \in Kinds : history'[j] = IF j = k THEN history[k] \cup {source'[k]} ELSE history[j]
      BY <3>1 DEF HandoffInv, CarriedInv, HandoffTypeOK
    <3> QED BY <3>2, <3>3 DEF HandoffInv, IntactInv
  <2> QED BY <2>1, <2>2
<1> QED BY <1>1, <1>2 DEF HandoffInv, IntactInv, SoundIsAccepted, Delivered, Hops

\* What is signed is the session, and the text is its encoding (runCapture).
LEMMA CaptureIntact ==
  ASSUME HandoffInv, Start \/ ReadState \/ Sign PROVE IntactInv'
<1> USE DEF HandoffInv, CarriedInv
<1>1. /\ UNCHANGED <<history, required, trusted, before, content>>
      /\ pc \in {"idle", "capture"} /\ ~ Delivered
  BY DEF TargetInv, Start, ReadState, Sign, origin, options, target
<1>2. CASE Start
  BY <1>1, <1>2 DEF Start, IntactInv, SoundIsAccepted, Delivered, Hops
<1>3. CASE ReadState
  <2>1. session'.text = session.text
    BY <1>3, Rests DEF ReadState, HandoffTypeOK, Sessions, Forms
  <2>2. pc' \in {"capture", "failed"}
    BY <1>3 DEF ReadState
  <2> QED BY <1>1, <2>1, <2>2 DEF IntactInv, SoundIsAccepted, Delivered, Hops
<1>4. CASE Sign
  <2>1. /\ pc' = "written" /\ session.text \in {"plain", "odd"}
        /\ \E g \in {Unsigned, Signature(Own, session)} :
             session' = [session EXCEPT !.signature = g] /\ captured' = session'
    BY <1>4, Signed DEF Sign, IntactInv
  <2>2. PICK g \in {Unsigned, Signature(Own, session)} :
          session' = [session EXCEPT !.signature = g] /\ captured' = session'
    BY <2>1
  <2>3. g \in {Unsigned} \cup Signatures
    BY SignatureMade, HandoffAssumption DEF HandoffTypeOK
  <2>4. session' \in Sessions /\ Payload(session') = Payload(session)
        /\ session'.text = session.text /\ session'.signature = g
    BY <2>2, <2>3, PayloadTells DEF HandoffTypeOK, Sessions, Forms
  <2>5. captured'.signature \in {Unsigned, Signature(Own, captured')}
    BY <2>2, <2>4 DEF Signature
  <2>6. ~ damaged' => Undamaged'
    <3> SUFFICES ASSUME ~ damaged' PROVE Undamaged'
      OBVIOUS
    <3>1. wire' = Marshal(captured')
      BY <1>4, <2>2 DEF Sign
    <3>2. captured' \in Sessions
      BY <2>2, <2>4
    <3>3. /\ Marshal(captured').states = [k \in Kinds |-> Emit(captured'.states[k])]
          /\ Marshal(captured').signature = captured'.signature
          /\ Marshal(captured').text = Escape(captured'.text)
      BY <3>2, Codec
    <3> QED BY <3>1, <3>3 DEF Undamaged, Escape
  <2> QED BY <1>1, <2>1, <2>2, <2>4, <2>5, <2>6 DEF IntactInv, SoundIsAccepted, Delivered, Hops
<1> QED BY <1>2, <1>3, <1>4

\* What an undamaged text is decoded to: the states of the session, and all of
\* it if its text is plain (ReadJSON).
LEMMA UndamagedReads ==
  ASSUME HandoffInv, pc \in Hops, ~ damaged
  PROVE  LET s == Unmarshal(wire) IN
         /\ wire # Torn /\ wire \in Sessions /\ s \in Sessions
         /\ s.content = captured.content /\ s.hash = captured.hash
         /\ s.signature = captured.signature
         /\ \A k \in Kinds : s.states[k] = Parse(captured.states[k])
         /\ captured.text = "plain" => s.text = "plain"
<1> DEFINE s == Unmarshal(wire)
<1>1. /\ wire # Torn /\ wire \in Sessions /\ Undamaged
      /\ wire.content = captured.content /\ wire.hash = captured.hash
  BY DEF HandoffInv, CarriedInv, HandoffTypeOK, WireInv, IntactInv
<1>2. /\ s \in Sessions /\ s.content = wire.content /\ s.hash = wire.hash
      /\ s.signature = wire.signature /\ s.text = Unescape(wire.text)
      /\ s.states = [k \in Kinds |-> Parse(wire.states[k])]
  BY <1>1, Codec
<1>3. \A k \in Kinds : s.states[k] = Parse(captured.states[k])
  <2> TAKE k \in Kinds
  <2>1. captured.states[k] \in {Absent} \cup States
    BY DEF HandoffInv, CarriedInv, HandoffTypeOK, Sessions, Forms
  <2>2. s.states[k] = Parse(Emit(captured.states[k]))
    BY <1>1, <1>2 DEF Undamaged
  <2> QED BY <2>1, <2>2, CodecTwice
<1> HIDE DEF s
<1>4. captured.text = "plain" => s.text = "plain"
  BY <1>1, <1>2 DEF Undamaged, Unescape
<1> QED BY <1>1, <1>2, <1>3, <1>4 DEF Undamaged, s

\* It is valid: no tab list is empty, and a signature is still good, unless the
\* text is odd (browserstate.Validate, VerifySignature).
LEMMA UndamagedIsReadable ==
  ASSUME HandoffInv, pc \in Hops, ~ damaged, ~ (SignedBy(captured, Own) /\ captured.text = "odd")
  PROVE  Readable(wire)
<1> DEFINE s == Unmarshal(wire)
<1> HIDE DEF s
<1>1. /\ wire # Torn /\ s \in Sessions
      /\ s.content = captured.content /\ s.hash = captured.hash
      /\ s.signature = captured.signature
      /\ \A k \in Kinds : s.states[k] = Parse(captured.states[k])
      /\ captured.text = "plain" => s.text = "plain"
  BY UndamagedReads DEF s
<1>2. IsState(s.states["browser"]) => s.states["browser"].list # <<>>
  <2> DEFINE c == captured.states["browser"]
  <2>0. "browser" \in Kinds /\ c \in {Absent} \cup States
    BY DEF Kinds, HandoffInv, CarriedInv, HandoffTypeOK, Sessions, Forms
  <2>1. CASE c = Absent
    BY <1>1, <2>0, <2>1 DEF Parse, IsState
  <2>2. CASE c # Absent
    <3>1. PICK f \in history["browser"] : c = Parse(f)
      BY <2>0, <2>2 DEF HandoffInv, CarriedInv, SourceInv, Read
    <3>2. f \in States /\ f.list \in Lists["browser"]
      BY <2>0, <3>1 DEF HandoffInv, CarriedInv, HandoffTypeOK, IntactInv
    <3>3. f.list \in Seq(Items) /\ f.list # <<>>
      BY <2>0, <3>2, HandoffAssumption
    <3>4. Parse(f) = f
      BY <3>2, <3>3, EmitListed
    <3>5. s.states["browser"] = f
      BY <1>1, <2>0, <3>1, <3>4
    <3> QED BY <3>3, <3>5
  <2> QED BY <2>1, <2>2
<1>3. s.signature # Unsigned => s.signature.payload = Payload(s)
  <2> SUFFICES ASSUME s.signature # Unsigned PROVE s.signature.payload = Payload(s)
    OBVIOUS
  <2>0. captured.signature = Signature(Own, captured)
    BY <1>1 DEF HandoffInv, IntactInv
  <2>1. captured.text = "plain" /\ captured.signature.payload = Payload(captured)
    <3>1. captured.text \in {"plain", "odd"}
      BY DEF HandoffInv, IntactInv
    <3>2. captured.signature.payload = Payload(captured) /\ captured.signature.key = Own
      BY <2>0 DEF Signature
    <3> QED BY <1>1, <3>1, <3>2 DEF SignedBy
  <2>2. captured \in Sessions
    BY DEF HandoffInv, CarriedInv, HandoffTypeOK
  <2>3. \A k \in Kinds : Emit(s.states[k]) = Emit(captured.states[k])
    <3> TAKE k \in Kinds
    <3>1. captured.states[k] \in {Absent} \cup States
      BY <2>2 DEF Sessions, Forms
    <3> QED BY <1>1, <3>1, CodecTwice
  <2>4. Payload(s) = Payload(captured)
    BY <1>1, <2>1, <2>2, <2>3, PayloadSame
  <2> QED BY <1>1, <2>1, <2>4
<1> QED BY <1>1, <1>2, <1>3 DEF Readable, Valid, s

\* Damage is known as such, and a relayed session stays undamaged.
LEMMA WireIntact == ASSUME HandoffInv, Damage \/ Relay PROVE IntactInv'
<1>1. /\ UNCHANGED <<history, session, captured, required, trusted, before, content>>
      /\ pc \in Hops /\ ~ Delivered
  BY DEF HandoffInv, CarriedInv, TargetInv, Damage, Relay, origin, options, target, Hops
<1>2. CASE Damage
  BY <1>1, <1>2 DEF HandoffInv, IntactInv, Damage, SoundIsAccepted, Delivered, Hops
<1>3. CASE Relay /\ Readable(wire)
  <2>1. wire' = Marshal(Unmarshal(wire)) /\ pc' \in Hops /\ damaged' = damaged
    BY <1>3 DEF Relay, Hops
  <2>2. ~ damaged => Undamaged'
    <3> SUFFICES ASSUME ~ damaged PROVE Undamaged'
      OBVIOUS
    <3> DEFINE s == Unmarshal(wire)
    <3> HIDE DEF s
    <3>1. /\ s \in Sessions /\ s.signature = captured.signature
          /\ \A k \in Kinds : s.states[k] = Parse(captured.states[k])
          /\ captured.text = "plain" => s.text = "plain"
      BY <1>1, UndamagedReads DEF s
    <3>2. /\ wire'.states = [k \in Kinds |-> Emit(s.states[k])]
          /\ wire'.signature = s.signature /\ wire'.text = Escape(s.text)
      BY <2>1, <3>1, Codec DEF s
    <3>3. \A k \in Kinds : Emit(s.states[k]) = Emit(captured.states[k])
      <4> TAKE k \in Kinds
      <4>1. captured.states[k] \in {Absent} \cup States
        BY DEF HandoffInv, CarriedInv, HandoffTypeOK, Sessions, Forms
      <4> QED BY <3>1, <4>1, CodecTwice
    <3>4. wire'.states = [k \in Kinds |-> Emit(captured'.states[k])]
      BY <1>1, <3>2, <3>3
    <3> QED BY <1>1, <3>1, <3>2, <3>4 DEF Undamaged, Escape
  <2> QED BY <1>1, <2>1, <2>2 DEF HandoffInv, IntactInv, SoundIsAccepted, Delivered, Hops, Read
<1>4. CASE Relay /\ ~ Readable(wire)
  <2>1. damaged \/ (SignedBy(captured, Own) /\ captured.text = "odd")
    BY <1>1, <1>4, UndamagedIsReadable
  <2>2. pc' = "refused" /\ damaged' = damaged
    BY <1>4 DEF Relay
  <2> QED BY <1>1, <2>1, <2>2 DEF HandoffInv, IntactInv, SoundIsAccepted, Delivered, Hops, Read
<1> QED BY <1>2, <1>3, <1>4

\* Nothing is refused or delivered before the session is read.
LEMMA BeginIntact == ASSUME HandoffInv, BeginRestore PROVE IntactInv'
<1>1. /\ UNCHANGED <<history, known, session, captured, wire, damaged, before, content>>
      /\ pc = "stored" /\ pc' = "restore" /\ ~ Delivered
  BY DEF HandoffInv, CarriedInv, TargetInv, BeginRestore, origin, target, Hops
<1> QED BY <1>1 DEF HandoffInv, IntactInv, Undamaged, SoundIsAccepted, Delivered, Hops

\* Restore refuses no other session than those (readSessionFile,
\* verifyTrustedSession), and takes the states as they were.
LEMMA AcceptIntact == ASSUME HandoffInv, Accept PROVE IntactInv'
<1> DEFINE s == Unmarshal(wire)
<1> HIDE DEF s
<1>1. /\ UNCHANGED <<history, known, captured, damaged, required, trusted, before, content>>
      /\ pc \in Hops /\ pc = "restore" /\ ~ Delivered
  BY DEF HandoffInv, CarriedInv, TargetInv, Accept, origin, options, target, Hops
<1>2. ~ damaged => /\ s.hash = s.content /\ s.signature = captured.signature
                   /\ \A k \in Kinds : s.states[k] = Parse(captured.states[k])
  BY <1>1, UndamagedReads DEF s, HandoffInv, CarriedInv, WireInv
<1>3. ~ damaged => (Trusted(s) <=> Trusted(captured))
  BY <1>2 DEF Trusted, SignedBy
<1>4. CASE pc' = "refused"
  <2>1. ~ (Readable(wire) /\ (required => Trusted(s)) /\ s.hash = s.content)
    BY <1>4 DEF Accept, s
  <2>2. SoundIsAccepted'
    BY <1>1, <1>2, <1>3, <2>1, UndamagedIsReadable DEF SoundIsAccepted, Trusted, SignedBy
  <2> QED BY <1>1, <1>4, <2>2 DEF HandoffInv, IntactInv, Delivered, Hops
<1>5. CASE pc' # "refused"
  <2>1. pc' = "put content" /\ session' = s
    BY <1>5 DEF Accept, s
  <2>2. ~ damaged => \A k \in Kinds : Emit(s.states[k]) = Emit(captured.states[k])
    <3>1. \A k \in Kinds : captured.states[k] \in {Absent} \cup States
      BY DEF HandoffInv, CarriedInv, HandoffTypeOK, Sessions, Forms
    <3> QED BY <1>2, <3>1, CodecTwice
  <2>3. \A k \in Kinds : Read(k, captured.states[k])
    BY <1>1 DEF HandoffInv, CarriedInv, SourceInv
  <2> QED BY <1>1, <2>1, <2>2, <2>3 DEF HandoffInv, IntactInv, SoundIsAccepted, Hops, Read
<1> QED BY <1>4, <1>5

\* The steps after that leave the session and what is known of it.
LEMMA RestoreIntact ==
  ASSUME HandoffInv, PutContent \/ PutState \/ Restored \/ Fail \/ OpenStep \/ UNCHANGED vars
  PROVE  IntactInv'
<1>1. UNCHANGED <<history, known, session, captured, wire, damaged, required, trusted, before>>
  BY DEF PutContent, PutState, Restored, Fail, OpenStep, ReadView, OpenItem, Opened, vars,
         origin, journey, options, target
<1>2. \/ UNCHANGED <<pc, content>>
      \/ /\ pc \in {"put content", "put states"} /\ pc' \in {"put states", "done", "failed"}
         /\ pc = "put content" \/ Delivered
  BY DEF HandoffInv, CarriedInv, TargetInv, PutContent, PutState, Restored, Fail, OpenStep,
         ReadView, OpenItem, Opened, vars, journey, target
<1>3. CASE UNCHANGED <<pc, content>>
  BY <1>1, <1>3 DEF HandoffInv, IntactInv, Undamaged, SoundIsAccepted, Trusted, SignedBy, Delivered, Read
<1>4. CASE pc' \in {"put states", "done", "failed"} /\ (pc = "put content" \/ Delivered)
  BY <1>1, <1>4 DEF HandoffInv, IntactInv, SoundIsAccepted, Hops, Read
<1> QED BY <1>2, <1>3, <1>4

-----------------------------------------------------------------------------
(* What is open is what was read, and the active file is the last. *)

\* An order of the items is one of the same items, and ends with the active one.
LEMMA OrderKeeps ==
  ASSUME NEW f \in States, f.list \in Seq(Items), NEW q \in OrderFilesForRestore(f)
  PROVE  /\ q \in Seq(Items) /\ Range(q) = Range(f.list)
         /\ f.active \in Range(f.list) => q # <<>> /\ q[Len(q)] = f.active
<1>1. CASE f.active = NoFile
  <2>1. q = f.list
    BY <1>1 DEF OrderFilesForRestore
  <2>2. Range(f.list) \subseteq Items
    BY DEF Range
  <2> QED BY <1>1, <2>1, <2>2, HandoffAssumption
<1>2. CASE f.active # NoFile
  <2> DEFINE list == f.list
             D == DOMAIN list
  <2>1. PICK p \in Bijection(D, D) :
          q = [i \in D |-> list[p[i]]] /\ ActiveLast(list, f.active, p)
    BY <1>2 DEF OrderFilesForRestore
  <2>2. p \in [D -> D] /\ \A d \in D : \E i \in D : p[i] = d
    BY DEF Bijection, Injection, Surjection
  <2>3. D = 1 .. Len(list) /\ Len(list) \in Nat /\ \A i \in D : list[i] \in Items
    OBVIOUS
  <2> HIDE DEF list, D
  <2>4. q \in [D -> Items] /\ \A i \in D : q[i] = list[p[i]]
    BY <2>1, <2>2, <2>3
  <2>5. q \in Seq(Items) /\ Len(q) = Len(list) /\ DOMAIN q = D
    BY <2>3, <2>4
  <2>6. Range(q) = Range(list)
    <3>1. \A x \in Range(q) : x \in Range(list)
      BY <2>2, <2>4, <2>5 DEF Range, D
    <3>2. \A x \in Range(list) : x \in Range(q)
      <4> TAKE x \in Range(list)
      <4>1. PICK d \in D : x = list[d]
        BY DEF Range, D
      <4>2. PICK i \in D : p[i] = d
        BY <2>2
      <4> QED BY <2>4, <2>5, <4>1, <4>2 DEF Range
    <3> QED BY <3>1, <3>2
  <2>7. f.active \in Range(list) => q # <<>> /\ q[Len(q)] = f.active
    <3> SUFFICES ASSUME f.active \in Range(list) PROVE q # <<>> /\ q[Len(q)] = f.active
      OBVIOUS
    <3>1. PICK i \in D : q[i] = f.active
      BY <2>5, <2>6 DEF Range
    <3>2. Len(q) \in D /\ i <= Len(q) /\ i \in Nat
      BY <2>3, <2>5, <3>1
    <3>3. i < Len(q) => list[p[Len(q)]] = f.active
      BY <2>1, <2>4, <3>1, <3>2 DEF ActiveLast, D
    <3>4. q[Len(q)] = f.active
      BY <2>3, <2>4, <3>1, <3>2, <3>3
    <3> QED BY <2>5, <3>2, <3>4
  <2> QED BY <2>5, <2>6, <2>7 DEF list
<1> QED BY <1>1, <1>2

\* What a queue holds when its first item is taken.
LEMMA TakeFirst ==
  ASSUME NEW q \in Seq(Items), q # <<>>
  PROVE  /\ Head(q) \in Items /\ Tail(q) \in Seq(Items)
         /\ Range(q) = {Head(q)} \cup Range(Tail(q))
         /\ IF Tail(q) = <<>> THEN q[Len(q)] = Head(q)
            ELSE Tail(q)[Len(Tail(q))] = q[Len(q)]
<1>1. /\ Len(q) \in Nat \ {0} /\ DOMAIN q = 1 .. Len(q)
      /\ Head(q) = q[1] /\ Head(q) \in Items
      /\ Tail(q) \in Seq(Items) /\ Len(Tail(q)) = Len(q) - 1
      /\ DOMAIN Tail(q) = 1 .. Len(q) - 1
      /\ \A i \in 1 .. Len(q) - 1 : Tail(q)[i] = q[i + 1]
  OBVIOUS
<1>2. \A x : x \in Range(q) <=> \E i \in 1 .. Len(q) : x = q[i]
  BY <1>1 DEF Range
<1>3. \A x : x \in Range(Tail(q)) <=> \E i \in 1 .. Len(q) - 1 : x = q[i + 1]
  BY <1>1 DEF Range
<1>4. \A x \in Range(q) : x = Head(q) \/ x \in Range(Tail(q))
  <2> TAKE x \in Range(q)
  <2>1. PICK i \in 1 .. Len(q) : x = q[i]
    BY <1>2
  <2>2. i # 1 => i - 1 \in 1 .. Len(q) - 1 /\ x = q[(i - 1) + 1]
    BY <1>1, <2>1
  <2> QED BY <1>1, <1>3, <2>1, <2>2
<1>5. Head(q) \in Range(q) /\ \A x \in Range(Tail(q)) : x \in Range(q)
  <2>1. Head(q) \in Range(q)
    BY <1>1, <1>2
  <2>2. \A i \in 1 .. Len(q) - 1 : i + 1 \in 1 .. Len(q)
    BY <1>1
  <2> QED BY <1>2, <1>3, <2>1, <2>2
<1>6. Range(q) = {Head(q)} \cup Range(Tail(q))
  BY <1>4, <1>5
<1>7. Tail(q) = <<>> <=> Len(q) = 1
  <2>1. \A s \in Seq(Items) : s = <<>> <=> Len(s) = 0
    OBVIOUS
  <2>2. Tail(q) = <<>> <=> Len(Tail(q)) = 0
    BY <1>1, <2>1
  <2> QED BY <1>1, <2>2
<1>8. Tail(q) # <<>> => Tail(q)[Len(Tail(q))] = q[Len(q)]
  BY <1>1, <1>7
<1> QED BY <1>1, <1>6, <1>7, <1>8

LEMMA AddLast ==
  ASSUME NEW q \in Seq(Items), NEW x \in Items
  PROVE  /\ Append(q, x) \in Seq(Items) /\ Range(Append(q, x)) = Range(q) \cup {x}
         /\ Append(q, x)[Len(Append(q, x))] = x
<1> DEFINE r == Append(q, x)
<1>1. /\ r \in Seq(Items) /\ DOMAIN q = 1 .. Len(q) /\ Len(q) \in Nat
      /\ DOMAIN r = 1 .. Len(q) + 1 /\ Len(r) = Len(q) + 1
      /\ r[Len(q) + 1] = x /\ \A i \in 1 .. Len(q) : r[i] = q[i]
  OBVIOUS
<1> HIDE DEF r
<1>2. \A y : y \in Range(r) <=> \E i \in 1 .. Len(q) + 1 : y = r[i]
  BY <1>1 DEF Range
<1>3. \A y : y \in Range(q) <=> \E i \in 1 .. Len(q) : y = q[i]
  BY <1>1 DEF Range
<1>4. \A i : i \in 1 .. Len(q) + 1 <=> i \in 1 .. Len(q) \/ i = Len(q) + 1
  BY <1>1
<1>5. Range(r) = Range(q) \cup {x}
  BY <1>1, <1>2, <1>3, <1>4
<1> QED BY <1>1, <1>5 DEF r

LEMMA OpenInit == Init => OpenInv
BY DEF Init, OpenInv, Kinds

\* Meanwhile the session may arrive, but what was read came from it or was there.
LEMMA OthersLeaveOpen ==
  ASSUME HandoffInv, SourceStep \/ Damage \/ Relay \/ RestoreStep \/ UNCHANGED vars PROVE OpenInv'
<1>1. UNCHANGED <<opening, before>>
  BY DEF SourceStep, RestoreStep, CreateState, WriteState, Start, ReadState, Sign, Damage, Relay,
         BeginRestore, Accept, PutContent, PutState, Restored, Fail, vars, target
<1>2. Delivered => Delivered' /\ session' = session
  <2> SUFFICES ASSUME Delivered PROVE Delivered' /\ session' = session
    OBVIOUS
  <2>1. pc \in {"put states", "done", "failed"}
    BY DEF HandoffInv, CarriedInv, TargetInv
  <2>2. PutState \/ Restored \/ Fail \/ UNCHANGED vars
    BY <2>1 DEF SourceStep, RestoreStep, CreateState, WriteState, Start, ReadState, Sign, Damage,
                Relay, BeginRestore, Accept, PutContent, Unread, Hops
  <2>3. session' = session /\ content' = content
    BY <2>1, <2>2 DEF PutState, Restored, Fail, vars, journey, target
  <2> QED BY <2>3 DEF Delivered
<1>3. UNCHANGED <<reader, view, queue, opened, shown>>
  BY <1>1 DEF opening
<1>4. OpenInv
  BY DEF HandoffInv
<1>5. Unusable(reader, shown)' = Unusable(reader, shown) /\ Opening' = Opening
      /\ Opens(shown)' = Opens(shown)
  BY <1>3 DEF Unusable, IsState, Opening, Opens, CanOpen
<1> QED BY <1>1, <1>2, <1>3, <1>4, <1>5 DEF OpenInv

\* A reader reads what the destination has at that moment.
LEMMA ReadViewOpens == ASSUME HandoffInv, NEW k \in Kinds, ReadView(k) PROVE OpenInv'
<1>1. /\ reader' = k /\ shown' = dest[k] /\ opened' = <<>>
      /\ UNCHANGED <<session, before, content>>
      /\ IF Unusable(k, dest[k])
           THEN view' = "refused" /\ queue' = <<>>
           ELSE view' = "opening" /\ queue' \in OrderFilesForRestore(dest[k])
  BY DEF ReadView, journey, options, target
<1>2. \/ shown' \in {Torn, before[k]}
      \/ Delivered /\ session.states[k] # Absent /\ shown' = Emit(session.states[k])
  BY <1>1 DEF HandoffInv, CarriedInv, TargetInv
<1>3. Delivered' = Delivered
  BY <1>1 DEF Delivered
<1>4. CASE Unusable(k, dest[k])
  BY <1>1, <1>2, <1>3, <1>4 DEF OpenInv, Unusable, IsState
<1>5. CASE ~ Unusable(k, dest[k])
  <2>1. dest[k].list \in Seq(Items) => Opening'
    <3> SUFFICES ASSUME dest[k].list \in Seq(Items) PROVE Opening'
      OBVIOUS
    <3>1. dest[k] \in States
      BY <1>5 DEF Unusable, IsState, HandoffInv, CarriedInv, HandoffTypeOK
    <3>2. /\ queue' \in Seq(Items) /\ Range(queue') = Range(dest[k].list)
          /\ dest[k].active \in Range(dest[k].list) =>
               queue' # <<>> /\ queue'[Len(queue')] = dest[k].active
      BY <1>1, <1>5, <3>1, OrderKeeps
    <3>3. opened' \in Seq(Items) /\ Range(opened') = {}
      BY <1>1 DEF Range
    <3> QED BY <1>1, <3>2, <3>3 DEF Opening
  <2> QED BY <1>1, <1>2, <1>3, <1>5, <2>1 DEF OpenInv, Unusable, IsState
<1> QED BY <1>4, <1>5

\* An item is opened in its turn, skipped, or the last that is tried.
LEMMA OpenItemOpens == ASSUME HandoffInv, OpenItem PROVE OpenInv'
<1>1. /\ view = "opening" /\ queue # <<>> /\ queue' = Tail(queue)
      /\ UNCHANGED <<reader, shown, session, before, content>>
      /\ IF Head(queue) \in Openable
           THEN opened' = Append(opened, Head(queue)) /\ UNCHANGED view
           ELSE /\ view' = IF reader = "editor" THEN view ELSE "failed"
                /\ UNCHANGED opened
  BY DEF OpenItem, journey, options, target
<1>2. /\ reader \in Kinds /\ ~ Unusable(reader, shown)
      /\ \/ shown \in {Torn, before[reader]}
         \/ Delivered /\ session.states[reader] # Absent /\ shown = Emit(session.states[reader])
  BY <1>1 DEF HandoffInv, OpenInv
<1>3. view' \in {"opening", "failed"}
  BY <1>1
<1>4. view' = "opening" /\ shown.list \in Seq(Items) => Opening'
  <2> SUFFICES ASSUME view' = "opening", shown.list \in Seq(Items) PROVE Opening'
    OBVIOUS
  <2>1. Opening
    BY <1>1 DEF HandoffInv, OpenInv
  <2> DEFINE item == Head(queue)
             active == shown.active
  <2>2. /\ item \in Items /\ Tail(queue) \in Seq(Items)
        /\ Range(queue) = {item} \cup Range(Tail(queue))
        /\ IF Tail(queue) = <<>> THEN queue[Len(queue)] = item
           ELSE Tail(queue)[Len(Tail(queue))] = queue[Len(queue)]
    BY <1>1, <2>1, TakeFirst DEF Opening
  <2>3. Range(<<>>) = {}
    BY DEF Range
  <2>4. active \in Range(shown.list) => queue[Len(queue)] = active
    BY <1>1, <2>1 DEF Opening
  <2>5. CASE item \in Openable
    <3>1. opened' = Append(opened, item) /\ item \in CanOpen
      BY <1>1, <1>2, <2>2, <2>5 DEF CanOpen
    <3>2. /\ opened' \in Seq(Items) /\ Range(opened') = Range(opened) \cup {item}
          /\ opened'[Len(opened')] = item
      BY <2>1, <2>2, <3>1, AddLast DEF Opening
    <3>3. CanOpen' = CanOpen
      BY <1>1 DEF CanOpen
    <3> QED BY <1>1, <2>1, <2>2, <2>4, <3>1, <3>2, <3>3 DEF Opening
  <2>6. CASE item \notin Openable
    <3>1. reader = "editor" /\ opened' = opened /\ item \notin CanOpen /\ CanOpen' = CanOpen
      BY <1>1, <1>2, <2>6 DEF CanOpen, Kinds
    <3>2. Range(opened) \subseteq CanOpen
      BY <2>1 DEF Opening
    <3>3. IF Tail(queue) = <<>> THEN active \in Range(shown.list) => active \notin Range(opened)
          ELSE TRUE
      BY <2>2, <2>4, <3>1, <3>2
    <3> QED BY <1>1, <2>1, <2>2, <2>4, <3>1, <3>3 DEF Opening
  <2> QED BY <2>5, <2>6
<1>5. Delivered' = Delivered
  BY <1>1 DEF Delivered
<1> QED BY <1>1, <1>2, <1>3, <1>4, <1>5 DEF OpenInv, Unusable, IsState

\* All of it was tried.
LEMMA OpenedOpens == ASSUME HandoffInv, Opened PROVE OpenInv'
<1>1. /\ view = "opening" /\ queue = <<>> /\ view' = "opened"
      /\ UNCHANGED <<reader, queue, opened, shown, session, before, content>>
  BY DEF Opened, journey, options, target
<1>2. shown.list \in Seq(Items) => Opens(shown)'
  <2> SUFFICES ASSUME shown.list \in Seq(Items) PROVE Opens(shown)'
    OBVIOUS
  <2>1. Opening /\ Range(<<>>) = {}
    BY <1>1 DEF HandoffInv, OpenInv, Range
  <2>2. Range(opened) = Range(shown.list) \cap CanOpen
    BY <1>1, <2>1 DEF Opening
  <2>3. shown.active \in Range(opened) => opened[Len(opened)] = shown.active
    BY <1>1, <2>1, <2>2 DEF Opening
  <2> QED BY <1>1, <2>2, <2>3 DEF Opens, CanOpen
<1>3. Delivered' = Delivered
  BY <1>1 DEF Delivered
<1> QED BY <1>1, <1>2, <1>3 DEF HandoffInv, OpenInv, Unusable, IsState

LEMMA HandoffInit == Init => HandoffInv
BY CarriedInit, IntactInit, OpenInit DEF HandoffInv

LEMMA HandoffStep == HandoffInv /\ [Next]_vars => HandoffInv'
<1> SUFFICES ASSUME HandoffInv, [Next]_vars PROVE HandoffInv'
  OBVIOUS
<1>1. CarriedInv'
  BY CarriedStep DEF HandoffInv
<1>2. IntactInv'
  BY SourceIntact, CaptureIntact, WireIntact, BeginIntact, AcceptIntact, RestoreIntact
     DEF Next, SourceStep, RestoreStep
<1>3. OpenInv'
  BY OthersLeaveOpen, ReadViewOpens, OpenItemOpens, OpenedOpens DEF Next, OpenStep
<1> QED BY <1>1, <1>2, <1>3 DEF HandoffInv

-----------------------------------------------------------------------------
\* The invariant holds of every session, on every way (ReadJSON, WriteWorkspace).
THEOREM HandoffInvariance == Spec => []HandoffInv
BY HandoffInit, HandoffStep, PTL DEF Spec

\* A session the source signed has the content and the states of the captured
\* one, and an undamaged one the states.
LEMMA StatesAreCaptureds ==
  ASSUME HandoffInv, Delivered
  PROVE  /\ SignedBy(session, Own) => session.content = captured.content
         /\ SignedBy(session, Own) \/ ~ damaged =>
              \A k \in Kinds : Emit(session.states[k]) = Emit(captured.states[k])
<1> USE DEF HandoffInv, CarriedInv
<1>1. Accepted
  BY DEF TargetInv
<1>2. ASSUME SignedBy(session, Own)
      PROVE  /\ session.content = captured.content
             /\ \A k \in Kinds : Emit(session.states[k]) = Emit(captured.states[k])
  <2>1. Payload(session) = Payload(captured)
    BY <1>1, <1>2 DEF Accepted, Genuine, SignedBy
  <2>2. /\ Payload(session).content = session.content
        /\ Payload(captured).content = captured.content
        /\ Payload(session).states = [k \in Kinds |-> Emit(session.states[k])]
        /\ Payload(captured).states = [k \in Kinds |-> Emit(captured.states[k])]
    BY PayloadTells DEF HandoffTypeOK
  <2>3. \A k \in Kinds : /\ Payload(session).states[k] = Emit(session.states[k])
                         /\ Payload(captured).states[k] = Emit(captured.states[k])
    BY <2>2
  <2> QED BY <2>1, <2>2, <2>3
<1>3. ~ damaged => \A k \in Kinds : Emit(session.states[k]) = Emit(captured.states[k])
  BY DEF IntactInv
<1> QED BY <1>2, <1>3

\* What a reader was shown was there before, is half written, or was written by
\* a writer on the source, but for a text that was changed and is not signed there.
LEMMA ShownIsWritten ==
  ASSUME HandoffInv, view # "idle", shown \notin {Torn, before[reader]},
         ~ (damaged /\ ~ SignedBy(session, Own))
  PROVE  \E f \in history[reader] : f \in States /\ f.list \in Lists[reader] /\ shown = Emit(f)
<1> USE DEF HandoffInv, CarriedInv
<1>1. /\ reader \in Kinds /\ Delivered /\ session.states[reader] # Absent
      /\ shown = Emit(session.states[reader])
  BY DEF OpenInv
<1>2. shown = Emit(captured.states[reader])
  BY <1>1, StatesAreCaptureds
<1>3. /\ session.states[reader] \in {Absent} \cup States
      /\ captured.states[reader] \in {Absent} \cup States
  BY <1>1 DEF HandoffTypeOK, Sessions, Forms
<1>4. captured.states[reader] # Absent
  BY <1>1, <1>2, <1>3, EmitParse
<1>5. PICK f \in history[reader] : captured.states[reader] = Parse(f)
  BY <1>1, <1>4 DEF IntactInv, Read
<1>6. f \in States /\ f.list \in Lists[reader]
  BY <1>1, <1>5 DEF HandoffTypeOK, IntactInv
<1>7. f.list \in Seq(Items)
  BY <1>1, <1>6, HandoffAssumption
<1>8. shown = Emit(f)
  BY <1>2, <1>5, <1>6, <1>7, EmitListed
<1> QED BY <1>6, <1>8

\* Whatever happens to the text, a session signed by the source arrives as it was
\* captured, and so does every session that restore accepts when it was told to
\* trust the source only; without a signature no content comes with a hash that is
\* not its own (VerifySignature, verifyTrustedSession, planApplyFiles).
THEOREM SignedArrivesAsCaptured == Spec => []ArrivesAsCaptured
<1>1. HandoffInv => ArrivesAsCaptured
  <2> SUFFICES ASSUME HandoffInv, Delivered PROVE ArrivesAsCaptured
    BY DEF ArrivesAsCaptured
  <2> USE DEF HandoffInv, CarriedInv
  <2>1. Accepted /\ content = session.content
        /\ \A k \in Kinds : dest[k] \in {before[k], Torn, Emit(session.states[k])}
    BY DEF TargetInv
  <2>2. required => Trusted(session)
    BY <2>1 DEF Accepted
  <2>3. required /\ trusted \subseteq {Own} => SignedBy(session, Own)
    BY <2>2 DEF Trusted
  <2>4. SignedBy(session, Own) =>
          /\ session.content = captured.content
          /\ \A k \in Kinds : Emit(session.states[k]) = Emit(captured.states[k])
    BY StatesAreCaptureds
  <2>5. content = captured.content \/ (damaged /\ session.hash # captured.hash)
    BY <2>1 DEF Accepted
  <2> QED BY <2>1, <2>2, <2>3, <2>4, <2>5 DEF ArrivesAsCaptured
<1> QED BY <1>1, HandoffInvariance, PTL

\* No state that was there is missing from the session, and none is half written
\* (ReadWorkspace, runCapture).
THEOREM StatesAreCaptured == Spec => []NoStateLost
<1>1. HandoffInv => NoStateLost
  <2> SUFFICES ASSUME HandoffInv PROVE NoStateLost
    OBVIOUS
  <2> USE DEF HandoffInv, CarriedInv, SourceInv
  <2>1. ASSUME pc = "capture", rest = <<>>, NEW k \in known PROVE session.states[k] # Absent
    <3>1. k \in Kinds /\ Range(rest) = {}
      BY <2>1, Rests DEF HandoffTypeOK
    <3> QED BY <2>1, <3>1 DEF Read
  <2>2. ASSUME pc \in Hops, NEW k \in Kinds
        PROVE  captured.states[k] \in {Absent} \cup {Parse(f) : f \in history[k]}
    BY <2>2 DEF Read
  <2> QED BY <2>1, <2>2 DEF NoStateLost
<1> QED BY <1>1, HandoffInvariance, PTL

\* After a restore each state file is the session's, or the earlier one where
\* the session has none (WriteWorkspace).
THEOREM StatesArePlaced == Spec => []StatesReplaced
<1>1. HandoffInv => StatesReplaced
  BY DEF HandoffInv, CarriedInv, TargetInv, StatesReplaced, Placed
<1> QED BY <1>1, HandoffInvariance, PTL
\* Nothing but damage, a signer that is not trusted and odd text keeps a session from its
\* destination (signingPayload, validate, verifyTrustedSession).
THEOREM SoundSessionsAreAccepted == Spec => []SoundIsAccepted
<1>1. HandoffInv => SoundIsAccepted
  BY DEF HandoffInv, IntactInv
<1> QED BY <1>1, HandoffInvariance, PTL

\* On the destination exactly what was open on the source and exists is opened,
\* the active file in front, or else what was there before
\* (orderFilesForRestore, restoreEditorState, runBrowser).
THEOREM WhatWasOpenIsOpened == Spec => []OpenedAsCaptured
<1>1. HandoffInv => OpenedAsCaptured
  <2> SUFFICES ASSUME HandoffInv, view = "opened", ~ (damaged /\ ~ SignedBy(session, Own))
               PROVE  \/ \E f \in history[reader] : Opens(f)
                      \/ IsState(before[reader]) /\ Opens(before[reader])
    BY DEF OpenedAsCaptured
  <2>1. /\ reader \in Kinds /\ ~ Unusable(reader, shown)
        /\ shown.list \in Seq(Items) => Opens(shown)
    BY DEF HandoffInv, OpenInv
  <2>2. IsState(shown) /\ (reader = "editor" => shown.list # Missing)
    BY <2>1 DEF Unusable
  <2>3. CASE shown = before[reader]
    <3>1. shown.list \in Seq(Items)
      BY <2>1, <2>2, <2>3, HandoffAssumption DEF HandoffInv, IntactInv
    <3> QED BY <2>1, <2>2, <2>3, <3>1
  <2>4. CASE shown # before[reader]
    <3>1. PICK f \in history[reader] : f \in States /\ f.list \in Lists[reader] /\ shown = Emit(f)
      BY <2>2, <2>4, ShownIsWritten DEF IsState
    <3>2. f.list \in Seq(Items) /\ (reader # "editor" => f.list # <<>>)
      BY <2>1, <3>1, HandoffAssumption DEF Kinds
    <3>3. shown = f
      BY <2>2, <3>1, <3>2, EmitListed
    <3> QED BY <2>1, <3>2, <3>3
  <2> QED BY <2>3, <2>4
<1> QED BY <1>1, HandoffInvariance, PTL

\* A state file is refused only for the reasons listed there: none, half of one,
\* or no list where Go left an empty one out (validateEditorState).
THEOREM RefusalsAreExplained == Spec => []RefusalExplained
<1>1. HandoffInv => RefusalExplained
  <2> SUFFICES ASSUME HandoffInv, view = "refused", shown # Torn,
                      ~ (shown = Absent /\ before[reader] = Absent)
               PROVE  /\ reader = "editor" /\ shown.list = Missing
                      /\ (\E f \in history["editor"] : f.list = <<>>) \/ damaged
    BY DEF RefusalExplained
  <2>1. /\ reader \in Kinds /\ Unusable(reader, shown)
        /\ \/ shown = before[reader]
           \/ /\ Delivered /\ session.states[reader] # Absent
              /\ shown = Emit(session.states[reader])
    BY DEF HandoffInv, OpenInv
  <2>2. shown # Absent
    <3>1. Delivered => session.states[reader] \in {Absent} \cup States
      BY <2>1 DEF HandoffInv, CarriedInv, HandoffTypeOK, Sessions, Forms
    <3> QED BY <2>1, <3>1, EmitParse
  <2>3. IsState(shown) /\ reader = "editor" /\ shown.list = Missing
    BY <2>1, <2>2 DEF Unusable, IsState
  <2>4. shown # before[reader]
    <3> SUFFICES ASSUME shown = before[reader] PROVE FALSE
      OBVIOUS
    <3>1. shown.list \in Lists["editor"] /\ "editor" \in Kinds
      BY <2>1, <2>3 DEF HandoffInv, IntactInv
    <3> QED BY <2>3, <3>1, HandoffAssumption
  <2>5. CASE ~ damaged
    <3>1. PICK f \in history[reader] : f \in States /\ f.list \in Lists[reader] /\ shown = Emit(f)
      BY <2>4, <2>5, ShownIsWritten
    <3>2. f.list \in Seq(Items)
      BY <2>1, <3>1, HandoffAssumption
    <3>3. f.list = <<>>
      BY <2>3, <3>1, <3>2, EmitListed, HandoffAssumption
    <3> QED BY <2>3, <3>1, <3>3
  <2> QED BY <2>3, <2>5
<1> QED BY <1>1, HandoffInvariance, PTL
=============================================================================
