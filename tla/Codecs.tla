------------------------------- MODULE Codecs -------------------------------
(***************************************************************************)
(* The text encodings the inspector and JSI do themselves: UTF-16 to UTF-8 *)
(* of what a debugger is sent and back, the hash and the base64 text of a  *)
(* WebSocket handshake, and the host names a request may come with.        *)
(*                                                                         *)
(* Source: inspector/inspector_utils.{h,cpp} (utf16toUTF8, sha1_context,   *)
(* base64_encode), decodeUTF8 and convertUTF8ToUTF16 in jsi/jsi.cpp,       *)
(* TrimPort, IsIPAddress and IsAllowedHost in inspector_socket.cpp.        *)
(*                                                                         *)
(* A text is a sequence of the numbers of its units.  The compression of   *)
(* SHA-1 is left out: a digest is the sequence of the blocks that went     *)
(* into it.                                                                *)
(***************************************************************************)
EXTENDS Conversions

-----------------------------------------------------------------------------
(* UTF-16 to UTF-8.                                                        *)

High(u) == u \in 55296..56319
Low(u)  == u \in 56320..57343

\* The unit at i and the next are the halves of a code point.
PairAt(u, i) == i < Len(u) /\ High(u[i]) /\ Low(u[i + 1])

\* The loop has taken the unit at i together with the one before.
Taken(u, i) == i > 1 /\ PairAt(u, i - 1)

EncodedSize(u, i) ==
    CASE Taken(u, i) -> 0
      [] u[i] < 128  -> 1
      [] u[i] \in 128..2047 -> 2
      [] PairAt(u, i) -> 4
      [] OTHER -> 3

Utf16ToUtf8Length(u) ==
    FoldLeft(LAMBDA n, i : n + EncodedSize(u, i), 0, [i \in DOMAIN u |-> i])

EncodePair(ch, ch2) ==
    LET trunc == ((ch \div 64) % 16) + 1
    IN  <<240 + trunc \div 4,
          128 + (trunc % 4) * 16 + ((ch \div 4) % 16),
          128 + (ch % 4) * 16 + ((ch2 \div 64) % 16),
          128 + (ch2 % 64)>>

EncodeAt(u, i) ==
    CASE Taken(u, i) -> <<>>
      [] u[i] < 128  -> <<u[i]>>
      [] u[i] \in 128..2047 -> <<192 + u[i] \div 64, 128 + (u[i] % 64)>>
      [] PairAt(u, i) -> EncodePair(u[i], u[i + 1])
      [] OTHER -> <<224 + u[i] \div 4096, 128 + ((u[i] \div 64) % 64),
                    128 + (u[i] % 64)>>

Utf16ToUtf8(u) == FlattenSeq([i \in DOMAIN u |-> EncodeAt(u, i)])

-----------------------------------------------------------------------------
(* UTF-8 to UTF-16.                                                        *)

Replacement == 65533

\* Behind the text is a zero.
ByteAt(b, i) == IF i <= Len(b) THEN b[i] ELSE 0

Continues(x) == x \in 128..191

SequenceLength(ch) ==
    CASE ch <= 127      -> 1
      [] ch \in 192..223 -> 2
      [] ch \in 224..239 -> 3
      [] ch \in 240..247 -> 4
      [] OTHER -> 0

Smallest == <<0, 128, 2048, 65536>>

\* decodeUTF8: the code point at i, and how far the input was moved.
DecodeUtf8(b, i) ==
    LET n == SequenceLength(ByteAt(b, i))
        missing == {j \in 1..(n - 1) : ~Continues(ByteAt(b, i + j))}
        first == ByteAt(b, i) % (IF n = 1 THEN 128 ELSE 2 ^ (7 - n))
        value == FoldLeft(LAMBDA v, j : 64 * v + (ByteAt(b, i + j) % 64),
                          first, [j \in 1..(n - 1) |-> j])
    IN  CASE n = 0 -> [cp |-> Replacement, taken |-> 1]
          [] missing # {} -> [cp |-> Replacement, taken |-> Min(missing)]
          [] OTHER -> [cp |-> IF value < Smallest[n] \/ value > 1114111
                              THEN Replacement ELSE value,
                       taken |-> n]

EncodeUtf16(cp) ==
    IF cp < 65536 THEN <<cp>>
    ELSE <<55296 + (((cp - 65536) \div 1024) % 1024), 56320 + (cp % 1024)>>

ConvertUtf8ToUtf16(b) ==
    LET Pass(s, k) ==
          IF s.at > Len(b) THEN s
          ELSE LET d == DecodeUtf8(b, s.at)
               IN  [at |-> s.at + d.taken, out |-> s.out \o EncodeUtf16(d.cp)]
    IN  FoldLeft(Pass, [at |-> 1, out |-> <<>>], [k \in DOMAIN b |-> k]).out

-----------------------------------------------------------------------------
(* The key of a WebSocket handshake.                                       *)

Block == 64

NewHash == [buf |-> <<>>, blocks |-> <<>>]

\* A turn of the loop of update: fill the buffer, and hash it when it is full.
UpdatePass(s) ==
    LET n == Min({Len(s.rest), Block - Len(s.buf)})
        buf == s.buf \o SubSeq(s.rest, 1, n)
    IN  IF Len(buf) # Block
        THEN [s EXCEPT !.buf = buf, !.done = TRUE]
        ELSE [s EXCEPT !.blocks = Append(@, buf), !.buf = <<>>,
                       !.rest = SubSeq(@, n + 1, Len(@))]

Update(h, message) ==
    LET Pass(s, k) == IF s.done THEN s ELSE UpdatePass(s)
        end == FoldLeft(Pass, [buf |-> h.buf, blocks |-> h.blocks,
                               rest |-> message, done |-> FALSE],
                        [k \in 1..(Len(message) \div Block + 2) |-> k])
    IN  [buf |-> end.buf, blocks |-> end.blocks]

Zeros(n) == [i \in 1..n |-> 0]

\* The padding does not leave room for the length.
NeedsBlock(buflen) == buflen > Block - 8

Finish(h) ==
    LET bits == Bytes((Len(h.blocks) * Block + Len(h.buf)) * 8, 8)
        marked == Append(h.buf, 128)
        padded == marked \o Zeros(Block - Len(marked))
    IN  IF NeedsBlock(Len(marked))
        THEN h.blocks \o <<padded, Zeros(Block - 8) \o bits>>
        ELSE Append(h.blocks, SubSeq(padded, 1, Block - 8) \o bits)

Base64EncodedSize(size) == ((size + 2 - ((size + 2) % 3)) \div 3) * 4

\* A character of the alphabet is its place in the table, "=" is 64.
Pad == 64

\* Three bytes as four numbers of six bits.
Quad(a, b, c) ==
    <<a \div 4, (a % 4) * 16 + b \div 16, (b % 16) * 4 + c \div 64, c % 64>>

Base64Encode(src) ==
    LET n == Len(src) \div 3
        full == FlattenSeq([g \in 1..n |-> Quad(src[3 * g - 2],
                                                src[3 * g - 1], src[3 * g])])
        a == src[3 * n + 1]
        b == src[3 * n + 2]
    IN  full \o CASE Len(src) % 3 = 0 -> <<>>
                  [] Len(src) % 3 = 1 -> <<a \div 4, (a % 4) * 16, Pad, Pad>>
                  [] OTHER -> <<a \div 4, (a % 4) * 16 + b \div 16,
                                (b % 16) * 4, Pad>>

-----------------------------------------------------------------------------
(* The host of a request.  A character is ":", ".", "[", "]", a digit, any *)
(* other one, or the whole word localhost.                                 *)

HostChar == {":", ".", "[", "]", "digit", "other", "localhost"}

RFind(h, c) ==
    LET at == {i \in DOMAIN h : h[i] = c} IN IF at = {} THEN 0 ELSE Max(at)

TrimPort(h) ==
    LET colon == RFind(h, ":") IN
    IF colon > RFind(h, "]") THEN SubSeq(h, 1, colon - 1) ELSE h

IsIPAddress(h) ==
    \/ Len(h) >= 4 /\ Head(h) = "[" /\ Last(h) = "]"
    \/ /\ \A i \in DOMAIN h : h[i] \in {".", "digit"}
       /\ Cardinality({i \in DOMAIN h : h[i] = "."}) = 3

IsAllowedHost(h) ==
    LET host == TrimPort(h)
    IN  host = <<>> \/ IsIPAddress(host) \/ host = <<"localhost">>

-----------------------------------------------------------------------------
\* The units and bytes at the boundaries of the forms.
Units == {65, 127, 128, 2047, 2048, 55295, 55296, 56319, 56320, 57343, 57344,
          65535}
Octets == {0, 127, 128, 143, 144, 159, 160, 191, 193, 194, 224, 239, 240, 244,
           245, 255}

(***************************************************************************)
(* What utf16toUTF8 writes is what utf16toUTF8Length made room for, also   *)
(* when a half of a pair stands alone at the end, and convertUTF8ToUTF16   *)
(* gives the units back.                                                   *)
(***************************************************************************)
Utf16IsKept ==
    \A u \in UNION {[1..k -> Units] : k \in 0..3} :
      /\ Len(Utf16ToUtf8(u)) = Utf16ToUtf8Length(u)
      /\ ConvertUtf8ToUtf16(Utf16ToUtf8(u)) = u

(***************************************************************************)
(* Whatever the bytes, decodeUTF8 moves on and never past the zero behind  *)
(* the text, on which it relies, and a code point other than the           *)
(* replacement character comes from the bytes that are its only encoding:  *)
(* no longer form is taken for it.                                         *)
(***************************************************************************)
Utf8IsDecoded ==
    \A b \in UNION {[1..k -> Octets] : k \in 1..4} :
      LET d == DecodeUtf8(b, 1)
      IN  /\ d.taken \in 1..Len(b)
          /\ d.cp # Replacement =>
               SubSeq(b, 1, d.taken) = Utf16ToUtf8(EncodeUtf16(d.cp))

(***************************************************************************)
(* The blocks that are hashed are those of the padded message, whatever    *)
(* its length is and however it comes in two parts: the message, one bit,  *)
(* zeros and the number of its bits (update and finish of sha1_context).   *)
(***************************************************************************)
MessageIsPadded ==
    \A n \in 0..130 : \A k \in {0, 1, 55, 56, 63, 64} \cap 0..n :
      LET message == [i \in 1..n |-> i]
          hashed == Finish(Update(Update(NewHash, SubSeq(message, 1, k)),
                                  SubSeq(message, k + 1, n)))
      IN  /\ \A i \in DOMAIN hashed : Len(hashed[i]) = Block
          /\ FlattenSeq(hashed) =
               Append(message, 128) \o Zeros((119 - (n % 64)) % 64)
                                    \o Bytes(8 * n, 8)

(***************************************************************************)
(* base64_encode writes as many characters as base64_encoded_size says,    *)
(* which is the size of the buffer it is given, a whole group at a time,   *)
(* and a group has the bits of its bytes.                                  *)
(***************************************************************************)
Base64IsExact ==
    /\ \A n \in 0..40 :
         Len(Base64Encode([i \in 1..n |-> i])) = Base64EncodedSize(n)
    /\ \A s \in UNION {[1..k -> Octets] : k \in 1..3} :
         LET t == Base64Encode(s)
             digits == SelectSeq(t, LAMBDA c : c # Pad)
         IN  /\ ValueOf(digits, 64) = ValueOf(s, 256) * 4 ^ (3 - Len(s))
             /\ Base64Encode(<<1, 2, 3>> \o s) = Base64Encode(<<1, 2, 3>>) \o t

(***************************************************************************)
(* A port behind the host of a request does not change whether it is       *)
(* allowed, neither for names and addresses of version 4 nor for those of  *)
(* version 6, which have colons of their own within the brackets           *)
(* (IsAllowedHost).                                                        *)
(***************************************************************************)
PortDoesNotMatter ==
    \A h \in UNION {[1..k -> HostChar] : k \in 0..5} :
      (RFind(h, ":") = 0 \/ (Head(h) = "[" /\ Last(h) = "]")) =>
        IsAllowedHost(h \o <<":", "digit">>) = IsAllowedHost(h)

(***************************************************************************)
(* The encodings are exact at the boundaries of their forms: UTF-16 and    *)
(* UTF-8, the padding of SHA-1, base64, and hosts with and without a port. *)
(***************************************************************************)
CodecsAreExact ==
    /\ Utf16IsKept
    /\ Utf8IsDecoded
    /\ MessageIsPadded
    /\ Base64IsExact
    /\ PortDoesNotMatter
=============================================================================
