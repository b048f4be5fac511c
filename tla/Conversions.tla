---------------------------- MODULE Conversions ----------------------------
(***************************************************************************)
(* The conversions of numbers that the runtimes and the inspector do       *)
(* themselves: BigInts to text, text to array indices, the keys of a host  *)
(* object in the order of a script, and the length field of a WebSocket    *)
(* frame.                                                                  *)
(*                                                                         *)
(* Source: bigintToString in V8JsiRuntime.cpp and, the same algorithm, in  *)
(* NodeApiJsiRuntime.cpp; toArrayIndex and hostObjectOwnKeysTrap there;    *)
(* encode_frame_hybi17 and decode_frame_hybi17 in inspector_socket.cpp.    *)
(*                                                                         *)
(* A character of a text is the value of the digit it stands for, or       *)
(* "minus" or "x".  The width of the integers is a parameter.              *)
(***************************************************************************)
EXTENDS Integers, Sequences, SequencesExt

CONSTANTS
    HalfWord,     \* 2^32: the number of values of half a word of a BigInt
    IndexWidth    \* 2^32: the number of values of an array index

ASSUME WidthAssumption == HalfWord \in Nat \ {0, 1} /\ IndexWidth \in Nat \ {0}

-----------------------------------------------------------------------------
(* What a text of digits means: the reference definitions.                 *)

\* The number of digits of n; TLC tries the exponents in their order.
Log(n, base) ==
    CHOOSE k \in 0..n : base ^ k > n /\ (k > 0 => base ^ (k - 1) <= n)

\* The digits of n, the last first; none for 0.
DigitsOf(n, base) == [i \in 1..Log(n, base) |-> (n \div base ^ (i - 1)) % base]

Written(n, base) == IF n = 0 THEN <<0>> ELSE Reverse(DigitsOf(n, base))

ValueOf(s, base) == FoldLeft(LAMBDA n, d : base * n + d, 0, s)

-----------------------------------------------------------------------------
(* bigintToString.                                                         *)

Make64(high, low) == high * HalfWord + low

\* What ToWordsArray gives for a magnitude: half words, from 0 on, of as many
\* words as it takes, and what is behind them.
HalfWords(n) ==
    LET d == DigitsOf(n, HalfWord)
    IN  [i \in 0..(2 * Log(n, HalfWord * HalfWord)) |->
           IF i < Len(d) THEN d[i + 1] ELSE 0]

\* The half words without the leading zeros, and the first word.
Prepared(n) ==
    [half |-> HalfWords(n), count |-> Log(n, HalfWord), remainder |-> 0,
     word0 |-> n % (HalfWord * HalfWord), digits |-> <<>>, done |-> FALSE]

\* One step of the division of the half words by the radix.
DivideHalf(s, i, radix) ==
    LET d == Make64(s.remainder, s.half[i - 1])
        divided == [s EXCEPT !.half[i] = (d \div radix) % HalfWord,
                             !.remainder = d % radix]
        word0 == IF s.count = 3
                 THEN Make64(divided.half[1], divided.half[0]) ELSE s.word0
    IN  IF d < radix /\ i = s.count
        THEN [divided EXCEPT !.count = @ - 1, !.word0 = word0]
        ELSE divided

DivideHalves(s, radix) ==
    FoldLeft(LAMBDA t, i : DivideHalf(t, i, radix), s,
             Reverse([i \in 1..s.count |-> i]))

DivideWord(s, radix) ==
    [s EXCEPT !.remainder = s.word0 % radix, !.word0 = @ \div radix]

\* The condition of the loop over the digits.
Ended(s, radix) == s.count <= 2 /\ s.word0 = 0

NextDigit(s, radix) ==
    LET t == IF s.count <= 2 THEN DivideWord(s, radix)
             ELSE DivideHalves(s, radix)
    IN  [t EXCEPT !.digits = Append(@, t.remainder),
                  !.done = Ended(t, radix)]

\* The passes a number of two words needs at most: a bit each.
Passes == 1..(2 * Log(HalfWord * HalfWord, 2))

ValidRadix(radix) == radix \in 2..36

Text(n, negative, radix) ==
    LET Pass(s, i) == IF s.done THEN s ELSE NextDigit(s, radix)
        end == FoldLeft(Pass, Prepared(n), [i \in Passes |-> i])
    IN  IF n = 0 THEN <<0>>
        ELSE Reverse(IF negative THEN Append(end.digits, "minus")
                     ELSE end.digits)

\* V8Runtime::bigintToString.
V8BigIntToString(n, negative, radix) ==
    IF ValidRadix(radix) THEN Text(n, negative, radix)
    ELSE <<"JSINativeException">>

\* NodeApiJsiRuntime::bigintToString.
NodeApiBigIntToString(n, negative, radix) ==
    IF ValidRadix(radix) THEN Text(n, negative, radix) ELSE <<"JSError">>

-----------------------------------------------------------------------------
(* toArrayIndex.                                                           *)

NoIndex == IndexWidth

\* One more character of an index that did not begin with 0.
AddDigit_Mutant(res, ch) ==
    IF res = NoIndex \/ ch \notin 0..9 THEN NoIndex
    ELSE (10 * res + ch) % IndexWidth

AddDigit(res, ch) ==
    IF res = NoIndex \/ ch \notin 0..9 \/ 10 * res + ch >= IndexWidth
    THEN NoIndex ELSE 10 * res + ch

ToArrayIndex(s) ==
    IF s = <<>> \/ (Head(s) = 0 /\ Len(s) > 1) THEN NoIndex
    ELSE LET res == FoldLeft(AddDigit, 0, s)
         IN  IF res = IndexWidth - 1 THEN NoIndex ELSE res

-----------------------------------------------------------------------------
(* hostObjectOwnKeysTrap.  A key has a name, which is a text or a symbol,  *)
(* and the instance behind its PropNameID: one for all the keys of a text  *)
(* made by createPropNameID*, 0 here, another for each key that the host   *)
(* cloned from a PropNameIDView and for each symbol.                       *)

Interned(text) == [symbol |-> FALSE, text |-> text, instance |-> 0]
Cloned(text, n) == [symbol |-> FALSE, text |-> text, instance |-> n]
Symbol(number, n) == [symbol |-> TRUE, text |-> <<number>>, instance |-> n]
HostObjectSymbol == Symbol(100, 0)

IndexOf(k) == IF k.symbol THEN NoIndex ELSE ToArrayIndex(k.text)

\* The target of the proxy has at least the symbol of the host object.
TargetKeys(target) ==
    IF Len(target) > 1
    THEN SelectSeq(target, LAMBDA k : k # HostObjectSymbol)
    ELSE <<>>

\* uniqueOwnKeys and ownKeys: a key is new when its instance is.
AddKey_Mutant(keys, k) == Append(keys, k)

AddKey(keys, k) ==
    IF Contains(keys, k) THEN keys ELSE Append(keys, k)

OwnKeys(target, host) ==
    LET keys == FoldLeft(AddKey, TargetKeys(target), host)
        indexKeys == SelectSeq(keys, LAMBDA k : IndexOf(k) # NoIndex)
        nonIndexKeys == SelectSeq(keys, LAMBDA k : IndexOf(k) = NoIndex)
    IN  SortSeq(indexKeys, LAMBDA a, b : IndexOf(a) < IndexOf(b))
          \o nonIndexKeys

-----------------------------------------------------------------------------
(* The length of a WebSocket frame.                                        *)

\* n in the network byte order.
Bytes(n, count) == [i \in 1..count |->
                      IF count - i > 3 THEN 0
                      ELSE (n \div 256 ^ (count - i)) % 256]

EncodeLength(n) ==
    IF n <= 125 THEN <<n>>
    ELSE IF n <= 65535 THEN <<126>> \o Bytes(n, 2)
    ELSE <<127>> \o Bytes(n, 8)

\* The length and the bytes it took; what follows them is not looked at.
DecodeLength(b) ==
    LET size == CASE b[1] = 126 -> 2 [] b[1] = 127 -> 8 [] OTHER -> 0
    IN  [length |-> IF size = 0 THEN b[1]
                    ELSE ValueOf(SubSeq(b, 2, size + 1), 256),
         taken |-> size + 1]

-----------------------------------------------------------------------------
(***************************************************************************)
(* The text of a BigInt of one word is the number in that radix, without a *)
(* leading zero and with its sign, and the loop ends (bigintToString of    *)
(* both runtimes).                                                         *)
(***************************************************************************)
OneWordTextIsExact ==
    \A n \in 0..(HalfWord * HalfWord - 1), radix \in 2..36 :
      /\ Text(n, FALSE, radix) = Written(n, radix)
      /\ V8BigIntToString(n, TRUE, radix) =
           IF n = 0 THEN <<0>> ELSE <<"minus">> \o Written(n, radix)
      /\ NodeApiBigIntToString(n, TRUE, radix) =
           V8BigIntToString(n, TRUE, radix)

(***************************************************************************)
(* "this BigInt converted to a String in base radix" (jsi.h): the same of  *)
(* a BigInt of two words, for which bigintToString divides half words.     *)
(***************************************************************************)
TwoWordTextIsExact ==
    \A n \in (HalfWord ^ 2)..(HalfWord ^ 4 - 1), radix \in 2..36 :
      Text(n, FALSE, radix) = Written(n, radix)

(***************************************************************************)
(* A text of at most three characters is an array index exactly when it is *)
(* the way a number below the largest uint32_t is written, whatever digits *)
(* come at the boundary (toArrayIndex).                                    *)
(***************************************************************************)
ArrayIndexIsCanonical ==
    \A s \in UNION {[1..k -> 0..9 \cup {10}] : k \in 0..3} :
      ToArrayIndex(s) =
        IF \E n \in 0..(IndexWidth - 2) : s = Written(n, 10)
        THEN ValueOf(s, 10) ELSE NoIndex

(***************************************************************************)
(* A script gets each key of a host object, those of the target and those  *)
(* the host names, the array indices first and in their order, the others  *)
(* in the order of the target and then of the host, and never the symbol   *)
(* of the host object.  It gets a name once, unless the name is a symbol   *)
(* or the host cloned it from a PropNameIDView, which has an instance of   *)
(* its own (hostObjectOwnKeysTrap).                                        *)
(***************************************************************************)
OwnKeysAreOrdered ==
    LET texts == {<<2>>, <<1, 0>>, <<0, 1>>, <<10>>}
        targets == {[i \in DOMAIN t |-> Interned(t[i])]
                       \o <<HostObjectSymbol>> \o s :
                    t \in {<<>>} \cup {<<a>> : a \in texts}
                         \cup {<<a, b>> : a, b \in texts},
                    s \in {<<>>, <<Symbol(101, 1)>>}}
        Own(n) == {Interned(t) : t \in texts} \cup {Cloned(t, n) : t \in texts}
                     \cup {Symbol(101, n)}
        hosts == {<<>>} \cup {<<a, b>> : a \in Own(2), b \in Own(3)}
        Unique(t) == \A i, j \in DOMAIN t : t[i].text = t[j].text => i = j
        First(keys, k) == CHOOSE i \in DOMAIN keys :
                             /\ keys[i] = k
                             /\ \A j \in 1..(i - 1) : keys[j] # k
        Before(t, h, a, b) ==
            IF IndexOf(b) # NoIndex THEN IndexOf(a) <= IndexOf(b)
            ELSE IndexOf(a) # NoIndex \/ First(t \o h, a) < First(t \o h, b)
    IN  \A t \in {u \in targets : Unique(u)}, h \in hosts :
          LET keys == OwnKeys(t, h)
          IN  /\ Range(keys) = (Range(t) \cup Range(h)) \ {HostObjectSymbol}
              /\ \A i, j \in DOMAIN keys :
                   i < j => /\ Before(t, h, keys[i], keys[j])
                            /\ keys[i].text = keys[j].text =>
                                 \/ keys[i].symbol
                                 \/ Interned(keys[i].text) # keys[i]
                                 \/ Interned(keys[j].text) # keys[j]

(***************************************************************************)
(* The length that encode_frame_hybi17 writes is the one that              *)
(* decode_frame_hybi17 reads, at the boundaries of its three forms too,    *)
(* and the bytes it takes are those that were written.                     *)
(***************************************************************************)
LengthIsRead ==
    \A n \in 0..300 \cup 65500..65600 \cup {16777215, 16777216} :
      DecodeLength(EncodeLength(n) \o <<1, 2, 3>>) =
        [length |-> n, taken |-> Len(EncodeLength(n))]

(* The conversions agree with their reference definitions for every input  *)
(* of the width: the text of a BigInt of one word, the names that are      *)
(* array indices, the keys of a host object, and the length field of a     *)
(* WebSocket frame, which the reader gets back from what the writer        *)
(* encodes.                                                                *)
ConversionsAreExact ==
    /\ OneWordTextIsExact
    /\ ArrayIndexIsCanonical
    /\ OwnKeysAreOrdered
    /\ LengthIsRead
=============================================================================
