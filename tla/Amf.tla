-------------------------------- MODULE Amf --------------------------------
(***************************************************************************)
(* The AMF3 codec for script values: encoder.c, decoder.c, amf_common.c, and *)
(* the integers of packet.c.  Integers and lengths are their bytes, a text   *)
(* is its characters, a double the eight bytes of its image in memory.       *)
(***************************************************************************)
EXTENDS Integers, Sequences, SequencesExt

VARIABLES value,        \* the value to be written
          writer,       \* who writes it: the encoder, rbtP_writeIntAMF3 or a Flash client
          bytes,        \* what was written
          got           \* what rbtAMF_decode makes of it
amfVars == <<value, writer, bytes, got>>

MinInt == -268435457
MaxInt == 268435456
\* Type markers.
UndefinedType == 0
NullType == 1
FalseType == 2
TrueType == 3
IntType == 4
DoubleType == 5
StringType == 6
DateType == 8
ArrayType == 9
ObjectType == 10
EmptyString == 1

\* A value has a number, a text or members: pairs of a key and a value.
Value(t, n, s, kids) == [t |-> t, n |-> n, s |-> s, kids |-> kids]
NilValue == Value("nil", 0, <<>>, <<>>)
Unset == Value("unset", 0, <<>>, <<>>)
Failed == Value("failed", 0, <<>>, <<>>)
Num(n) == Value("num", n, <<>>, <<>>)
Float(image) == Value("float", 0, image, <<>>)
Text(s) == Value("str", 0, s, <<>>)
Tbl(kids) == Value("tbl", 0, <<>>, kids)
Image(n) == <<n, 0, 0, 0, 0, 0, 0, 0>>
RootText == <<82, 111, 111, 116>>

\* utos: what is not positive becomes "0"; ftos is injective on what is used.
RECURSIVE Digits(_)
Digits(n) == IF n < 10 THEN <<48 + n>> ELSE Digits(n \div 10) \o <<48 + (n % 10)>>
UnsignedText(n) == Digits(IF n < 0 THEN 0 ELSE n)
FloatText(image) == <<46>> \o image

\* rbtH_set and setvalue: an absent key is one whose value is nil.
PutKid(kids, key, val) ==
    LET others == SelectSeq(kids, LAMBDA kid : kid[1] # key)
    IN  IF val.t = "nil" THEN others ELSE Append(others, <<key, val>>)
-----------------------------------------------------------------------------
(* encoder.c *)
EncodeIntSeven(n) ==
    LET v == n % 2^29
        High(shift) == 128 + ((v \div 2^shift) % 128)
    IN  CASE v < 128     -> <<v>>
          [] v \in 128..16383 -> <<High(7), v % 128>>
          [] v \in 16384..2097151 -> <<High(14), High(7), v % 128>>
          [] OTHER       -> <<High(21), High(14), High(7), v % 128>>

EncodeInt(n) ==
    LET v == n % 2^29
        High(shift) == 128 + ((v \div 2^shift) % 128)
    IN  CASE v < 128     -> <<v>>
          [] v \in 128..16383 -> <<High(7), v % 128>>
          [] v \in 16384..2097151 -> <<High(14), High(7), v % 128>>
          [] OTHER       -> <<High(22), High(15), High(8), v % 256>>
EncodeText(s) == EncodeInt(2 * Len(s) + 1) \o s
EncodeDouble(image) == Reverse(image)

\* The name that a key gets: none for "", "Root" and keys of other types.
KeyText(key) ==
    CASE key.t = "str"   -> IF key.s = RootText THEN <<>> ELSE key.s
      [] key.t = "num"   -> UnsignedText(key.n)
      [] key.t = "float" -> FloatText(key.s)
      [] OTHER           -> <<>>
RECURSIVE Encode(_)
EncodeObject(kids) ==
    LET named == SelectSeq(kids, LAMBDA kid : KeyText(kid[1]) # <<>>)
    IN  <<ObjectType>> \o EncodeInt(11) \o EncodeText(<<>>)
        \o FlattenSeq([i \in DOMAIN named |-> EncodeText(KeyText(named[i][1])) \o Encode(named[i][2])])
        \o <<EmptyString>>
Encode(v) ==
    CASE v.t = "nil"   -> <<NullType>>
      [] v.t = "bool"  -> <<IF v.n # 0 THEN TrueType ELSE FalseType>>
      [] v.t = "num"   -> IF v.n < MaxInt /\ v.n > MinInt THEN <<IntType>> \o EncodeInt(v.n)
                          ELSE <<DoubleType>> \o EncodeDouble(Image(v.n))
      [] v.t = "float" -> <<DoubleType>> \o EncodeDouble(v.s)
      [] v.t = "str"   -> <<StringType>> \o EncodeText(v.s)
      [] v.t = "tbl"   -> EncodeObject(v.kids)
      [] OTHER         -> <<UndefinedType>>

\* rbtP_writeIntAMF3
WriteIntAMF3(n) == IF n > MaxInt \/ n < MinInt THEN <<>> ELSE EncodeInt(n)
-----------------------------------------------------------------------------
(* decoder.c: the input that is left, the reference tables, whether           *)
(* decode_error was called, and the value that was read last.                 *)
Start(in) == [in |-> in, strs |-> <<>>, objs |-> <<>>, traits |-> <<>>, ok |-> TRUE, val |-> NilValue]
Error(d) == [d EXCEPT !.ok = FALSE, !.val = NilValue]
Give(d, v) == [d EXCEPT !.val = v]
Drop(d, n) == [d EXCEPT !.in = SubSeq(@, n + 1, Len(@))]
\* What follows a step; after decode_error nothing does.
Then(d, After(_)) == CHOOSE r \in {IF x.ok THEN After(x) ELSE x : x \in {d}} : TRUE

\* _decode_int_amf3 and rbtP_readIntAMF3: the sign is bit 28.  A byte that is
\* not there reads as 0.
DecodeInt(d) ==
    LET At(i) == IF i \in DOMAIN d.in THEN d.in[i] ELSE 0
        more == CHOOSE k \in 0..3 : (k = 3 \/ At(k + 1) < 128) /\ \A i \in 1..k : At(i) >= 128
        high == FoldLeft(LAMBDA n, i : 128 * n + (At(i) % 128), 0, [i \in 1..more |-> i])
        raw == IF more < 3 THEN 128 * high + At(more + 1) ELSE 256 * high + At(4)
    IN  IF Len(d.in) < more + 1 /\ more > 0 THEN Error(d)
        ELSE Give(Drop(d, more + 1), Num(IF raw >= 2^28 THEN raw - 2^29 ELSE raw))
DecodeDouble(d) ==
    IF Len(d.in) < 8 THEN Error(d) ELSE Give(Drop(d, 8), Float(Reverse(SubSeq(d.in, 1, 8))))

\* decode_reference_amf3
IsReference(refs, header) == header % 2 = 0 /\ header \div 2 \in 0..Len(refs) - 1
Referred(h, refs) == Give(h, refs[h.val.n \div 2 + 1])

TextHeader(d) == IF d.in = <<>> THEN Give(d, Num(1)) ELSE DecodeInt(d)
TextOf(h, size) ==
    LET text == Text(SubSeq(h.in, 1, size)) IN [Drop(h, size) EXCEPT !.strs = Append(@, text), !.val = text]

DecodeTextEmptyToo(d) ==
    Then(TextHeader(d), LAMBDA h :
         IF IsReference(h.strs, h.val.n) THEN Referred(h, h.strs) ELSE TextOf(h, h.val.n \div 2))

DecodeText(d) ==
    Then(TextHeader(d), LAMBDA h :
         IF h.val.n = EmptyString THEN Give(h, Text(<<>>))
         ELSE IF IsReference(h.strs, h.val.n) THEN Referred(h, h.strs)
         ELSE IF h.val.n \div 2 \in 0..Len(h.in) THEN TextOf(h, h.val.n \div 2) ELSE Error(h))

RECURSIVE Decode(_)
\* The names, then the values, of the sealed members of an object.
RECURSIVE SealedNames(_, _, _)
SealedNames(d, n, names) ==
    LET Named(k) == SealedNames(k, n - 1, Append(names, k.val))
    IN  IF n = 0 \/ ~d.ok THEN [d |-> d, names |-> names] ELSE Named(DecodeText(d))
RECURSIVE SealedValues(_, _, _)
SealedValues(d, names, kids) ==
    IF names = <<>> THEN Give(d, Tbl(kids))
    ELSE Then(Decode(d), LAMBDA v : SealedValues(v, Tail(names), PutKid(kids, Head(names), v.val)))
\* Pairs up to the empty name.
RECURSIVE Pairs(_, _)
Pairs(d, kids) ==
    Then(DecodeText(d), LAMBDA k :
         IF k.val.s = <<>> THEN Give(k, Tbl(kids))
         ELSE Then(Decode(k), LAMBDA v : Pairs(v, PutKid(kids, k.val, v.val))))
\* idx_map comes after the members.
AddObject(d) == IF d.ok THEN [d EXCEPT !.objs = Append(@, d.val)] ELSE d

\* decode_traits_reference_object: with sealed members it leaves v as it was.
DecodeByTraits(d, ref) ==
    IF ref \notin 0..Len(d.traits) - 1 THEN Error(d)
    ELSE IF d.traits[ref + 1] = <<>> THEN AddObject(Pairs(d, <<>>))
    ELSE Then(SealedValues(d, d.traits[ref + 1], <<>>), LAMBDA sealed : Give(sealed, Unset))

DecodeNewClass(d, n) ==
    LET Known(s) == IF s.d.ok THEN [s.d EXCEPT !.traits = Append(@, s.names)] ELSE s.d
    IN  Then(DecodeText(d), LAMBDA class : Then(Known(SealedNames(class, n, <<>>)), LAMBDA known :
        Then(SealedValues(known, Last(known.traits), <<>>), LAMBDA begun :
             AddObject(Pairs(begun, begun.val.kids)))))

DecodeObject(d) ==
    Then(DecodeInt(d), LAMBDA h :
         IF IsReference(h.objs, h.val.n) THEN Referred(h, h.objs)
         ELSE IF h.val.n % 4 < 2 THEN DecodeByTraits(h, h.val.n \div 4)
         ELSE DecodeNewClass(h, h.val.n \div 16))

\* decode_dynamic_dict_amf3 ends at the first nil; a nil under the first name
\* is the value of the whole array.
RECURSIVE Associative(_, _)
Associative(d, kids) ==
    Then(DecodeText(d), LAMBDA k :
         IF k.val.s = <<>> THEN Give(k, Tbl(kids))
         ELSE Then(Decode(k), LAMBDA v :
                   IF v.val.t # "nil" THEN Associative(v, PutKid(kids, k.val, v.val))
                   ELSE IF kids = <<>> THEN v ELSE Give(v, Tbl(kids))))
RECURSIVE Items(_, _, _, _)
Items(d, i, n, kids) ==
    IF i = n THEN Give(d, Tbl(kids))
    ELSE Then(Decode(d), LAMBDA v :
              IF v.val.t = "nil" THEN v ELSE Items(v, i + 1, n, PutKid(kids, Num(i), v.val)))

\* The reference is added before the items; a nil gets none, and its items are
\* left in the input.
DecodeArray(d) ==
    LET Whole(named, n) ==
            Then(Items([named EXCEPT !.objs = Append(@, Unset)], 0, n, named.val.kids),
                 LAMBDA all : [all EXCEPT !.objs[Len(named.objs) + 1] = all.val])
    IN  Then(DecodeInt(d), LAMBDA h :
             IF IsReference(h.objs, h.val.n) THEN Referred(h, h.objs)
             ELSE Then(Associative(h, <<>>), LAMBDA named :
                       IF named.val.t = "nil" THEN named ELSE Whole(named, h.val.n \div 2)))

\* deserialize_date: only a reference to a date can be read.
DecodeDate(d) ==
    Then(DecodeInt(d), LAMBDA h :
         IF IsReference(h.objs, h.val.n) THEN Referred(h, h.objs) ELSE Give(h, NilValue))

Decode(d) ==
    LET mark == IF d.in = <<>> THEN UndefinedType ELSE Head(d.in)
        rest == Drop(d, 1)
    IN  CASE mark \in {UndefinedType, NullType} -> Give(rest, NilValue)
          [] mark = FalseType  -> Give(rest, Value("bool", 0, <<>>, <<>>))
          [] mark = TrueType   -> Give(rest, Value("bool", 1, <<>>, <<>>))
          [] mark = IntType    -> DecodeInt(rest)
          [] mark = DoubleType -> DecodeDouble(rest)
          [] mark = StringType -> DecodeText(rest)
          [] mark = DateType   -> DecodeDate(rest)
          [] mark = ArrayType  -> DecodeArray(rest)
          [] mark = ObjectType -> DecodeObject(rest)
          [] OTHER             -> Error(rest)
-----------------------------------------------------------------------------
(* What a Flash client writes (external: the AMF3 of its player): a text or   *)
(* an object that it wrote before is a reference, the class of a plain object *)
(* is written once, and an object is numbered before its members.             *)
ClientText(e, s) ==
    IF s = <<>> THEN [e EXCEPT !.out = Append(@, EmptyString)]
    ELSE IF Contains(e.strs, s) THEN [e EXCEPT !.out = @ \o EncodeInt(2 * (SelectInSeq(e.strs, LAMBDA x : x = s) - 1))]
    ELSE [e EXCEPT !.out = @ \o EncodeText(s), !.strs = Append(@, s)]
RECURSIVE ClientValue(_, _)
ClientPair(e, kid) == ClientValue(ClientText(e, kid[1].s), kid[2])
\* traits has the number of names of each class that was written.
ClientHeader(e, v) ==
    CASE v.t = "arr" -> ClientText([e EXCEPT !.out = @ \o EncodeInt(2 * Len(v.kids) + 1)], <<>>)
      [] v.t = "cls" -> FoldLeft(LAMBDA f, kid : ClientText(f, kid[1].s),
                                 ClientText([e EXCEPT !.out = @ \o EncodeInt(16 * Len(v.kids) + 3),
                                                      !.traits = Append(@, Len(v.kids))], <<99>>), v.kids)
      [] Contains(e.traits, 0) ->
                [e EXCEPT !.out = @ \o EncodeInt(4 * (SelectInSeq(e.traits, LAMBDA n : n = 0) - 1) + 1)]
      [] OTHER -> ClientText([e EXCEPT !.out = @ \o EncodeInt(11), !.traits = Append(@, 0)], <<>>)
ClientMembers(e, v) ==
    LET Member(f, kid) == ClientValue(f, kid[2])
    IN  IF v.t = "tbl" THEN ClientText(FoldLeft(ClientPair, e, v.kids), <<>>) ELSE FoldLeft(Member, e, v.kids)
ClientObject(e, v) ==
    IF Contains(e.objs, v)
    THEN [e EXCEPT !.out = @ \o EncodeInt(2 * (SelectInSeq(e.objs, LAMBDA x : x = v) - 1))]
    ELSE ClientMembers(ClientHeader([e EXCEPT !.objs = Append(@, v)], v), v)
ClientValue(e, v) ==
    LET Marked_(m) == [e EXCEPT !.out = Append(@, m)]
    IN  CASE v.t = "str" -> ClientText(Marked_(StringType), v.s)
          [] v.t = "arr" -> ClientObject(Marked_(ArrayType), v)
          [] v.t \in {"tbl", "cls"} -> ClientObject(Marked_(ObjectType), v)
          [] OTHER       -> [e EXCEPT !.out = @ \o Encode(v)]
ClientEncode(v) == ClientValue([out |-> <<>>, strs |-> <<>>, objs |-> <<>>, traits |-> <<>>], v).out
-----------------------------------------------------------------------------
\* The values of the runs.
Chars == [i \in 1..64 |-> 97]
Leaves == {NilValue, Float(<<1, 2, 3, 4, 5, 6, 7, 8>>), Value("bool", 0, <<>>, <<>>), Value("bool", 1, <<>>, <<>>),
           Value("closure", 0, <<>>, <<>>), Text(<<>>), Text(<<97>>), Text(Chars)}
          \cup {Num(n) : n \in {MinInt - 1, MinInt, MinInt + 1, -1, 0, 127, 128, 16383, 16384, 2097151,
                                2097152, MaxInt - 1, MaxInt, MaxInt + 1}}
KeyValues == {Text(<<>>), Text(<<97>>), Text(<<55>>), Text(RootText), Num(0), Num(7), Num(-7), Float(Image(1))}
OneKid(vals) == {Tbl(<<<<k, v>>>>) : k \in KeyValues, v \in vals \ {NilValue}}
TwoKids == {Tbl(<<<<k, v>>, <<l, w>>>>) : k \in KeyValues, v \in {Num(1), Text(<<97>>)},
                                           l \in KeyValues, w \in OneKid({Num(2), Text(Chars)})}
ServerValues == Leaves \cup {Tbl(<<>>)} \cup OneKid(Leaves)
                \cup {v \in TwoKids : v.kids[1][1] # v.kids[2][1]}

Plain_ == Tbl(<<<<Text(<<97>>), Num(1)>>>>)
Other_ == Tbl(<<<<Text(<<98>>), Text(<<97>>)>>, <<Text(<<97>>), Text(<<98>>)>>>>)
List(items) == Value("arr", 0, <<>>, [i \in DOMAIN items |-> <<Num(i - 1), items[i]>>])
ClientItems == {Num(1), Text(<<>>), Text(<<97>>), Plain_, Other_, Tbl(<<<<Text(<<98>>), Plain_>>>>),
                Tbl(<<<<Text(<<97>>), List(<<Text(<<97>>)>>)>>>>), List(<<Text(<<97>>)>>), List(<<Plain_, Plain_>>)}
ClientValues == {List(<<a, b, c>>) : a \in ClientItems, b \in ClientItems, c \in ClientItems}
                \cup {Value("cls", 0, <<>>, <<<<Text(<<97>>), a>>, <<Text(<<98>>), b>>>>) : a \in ClientItems, b \in ClientItems}

\* What a table of the receiver looks like when all went well.
RECURSIVE Received(_)
Received(v) ==
    IF v.t = "num" THEN (IF v.n < MaxInt /\ v.n > MinInt THEN v ELSE Float(Image(v.n)))
    ELSE IF v.t \in {"tbl", "arr", "cls"} THEN
        Tbl(FoldLeft(LAMBDA kids, kid :
                        IF v.t # "arr" /\ KeyText(kid[1]) = <<>> THEN kids
                        ELSE PutKid(kids, IF v.t = "arr" THEN kid[1] ELSE Text(KeyText(kid[1])), Received(kid[2])),
                     <<>>, v.kids))
    ELSE IF v.t \in {"float", "str", "bool"} THEN v ELSE NilValue

AmfInit == /\ \/ writer = "server" /\ value \in ServerValues
              \/ writer = "packet" /\ value \in {v \in Leaves : v.t = "num"}
              \/ writer = "client" /\ value \in ClientValues
           /\ bytes = <<>> /\ got = Unset
AmfWrite == /\ bytes = <<>>
            /\ bytes' = CASE writer = "server" -> Encode(value)
                          [] writer = "packet" -> WriteIntAMF3(value.n)
                          [] writer = "client" -> ClientEncode(value)
            /\ UNCHANGED <<value, writer, got>>
AmfRead == /\ bytes # <<>> /\ got = Unset
           /\ got' = LET d == IF writer = "packet" THEN DecodeInt(Start(bytes)) ELSE Decode(Start(bytes))
                     IN  IF d.ok THEN d.val ELSE Failed
           /\ UNCHANGED <<value, writer, bytes>>
AmfNext == AmfWrite \/ AmfRead
AmfSpec == AmfInit /\ [][AmfNext]_amfVars
-----------------------------------------------------------------------------
\* What this library writes is read as the table that was written, with names
\* for keys; integers at the ends of the 29 bits keep their sign, and those
\* beyond become doubles.  (encoder.c:341-418, decoder.c:557-635)  The two
\* bounds themselves are refused by the encoder (encoder.c:109) but accepted by
\* rbtP_writeIntAMF3 (packet.c:292), which gives them the wrong sign.
ServerRoundTrip ==
    got # Unset /\ writer # "client" /\ (writer = "packet" => value.n \notin {MinInt, MaxInt})
        => got = Received(value)

\* What a client writes with references to earlier texts, objects and classes
\* is read as what it meant - unless it refers to an object again that has
\* objects as members, or is a member of one: decoder.c:232 numbers an object
\* after its members, the client before them.
RECURSIVE Composites(_)
Composites(v) == IF v.t \in {"tbl", "arr", "cls"}
              THEN <<v>> \o FlattenSeq([i \in DOMAIN v.kids |-> Composites(v.kids[i][2])]) ELSE <<>>
Repeats(v) == ~IsInjective(Composites(v))
HasInner(v) == \E o \in ToSet(Composites(v)) : o.t # "arr" /\ Len(Composites(o)) > 1
ClientRoundTrip == writer = "client" /\ bytes # <<>> /\ ~(Repeats(value) /\ HasInner(value))
                   => got \in {Unset, Received(value)}
=============================================================================
