------------------------- MODULE ScriptStoreProofs -------------------------
(***************************************************************************)
(* Proofs about ScriptStore for any texts, versions, buffers, strings and  *)
(* prepared scripts: the code that runs is that of the source the caller   *)
(* gave, and the data of a buffer is there while V8 reads it.              *)
(***************************************************************************)
EXTENDS ScriptStore, SequenceTheorems, TLAPS

BufType == buf \in [Buffer -> [src : Source \cup {None},
                               owners : SUBSET ({"caller"} \cup Str \cup Prepared),
                               deleted : {0, 1}]]
StrType == str \in [Str -> [state : {"none", "used", "garbage"},
                            buf : Buffer \cup {None}, src : Source \cup {None}]]
PrepType == prep \in [Prepared -> [state : {"none", "jsi", "c"},
                                   buf : Buffer \cup {None},
                                   hash : Source \cup {None},
                                   code : Source \cup {None},
                                   str : Str \cup {None}]]

\* A buffer that is owned has a text, and the data of one that was made is
\* given back exactly when nobody owns it.
BufferInv ==
    \A b \in Buffer : IF buf[b].src = None THEN buf[b] = NoBuf
                      ELSE buf[b].deleted = IF Live(b) THEN 0 ELSE 1

\* A string on a buffer owns it, and has its text.
StringInv ==
    \A s \in Str : str[s].buf # None => /\ s \in buf[str[s].buf].owners
                                        /\ str[s].src = buf[str[s].buf].src

\* A prepared script owns its buffer and has the code of its text.
PreparedInv ==
    \A p \in Prepared :
        \/ prep[p] = NoPrep
        \/ /\ prep[p].state # "none" /\ prep[p].buf # None
           /\ p \in buf[prep[p].buf].owners
           /\ prep[p].hash \in Source /\ prep[p].code = prep[p].hash

MemInv ==
    BufType /\ StrType /\ PrepType /\ BufferInv /\ StringInv /\ PreparedInv

\* The scripts that run have the code of their source.
Running ==
    {f \in [src : Source, code : Source, str : Str \cup {None},
            arg : Buffer \cup {None}, keep : BOOLEAN] : f.code = f.src}
StackInv == stack \in Seq(Running) /\ Len(stack) <= MaxDepth

Entry == [src : Source \cup {None}, version : Version \cup {None},
          intact : BOOLEAN]
Fits(e, k, ran) == e.src = k[1] /\ e.version = k[2] /\ e.src \in ran

\* What the store has, and what it was given, is of its source and version.
StoreInv ==
    /\ version \in Version /\ hasStore \in BOOLEAN /\ runtime \in BOOLEAN
    /\ store \in [Key -> Entry]
    /\ \A k \in Key : store[k] = NoEntry \/ Fits(store[k], k, ranToEnd)
    /\ \A w \in writes : /\ w \in [key : Key, entry : Entry]
                         /\ Fits(w.entry, w.key, ranToEnd)

IInv == MemInv /\ StackInv /\ StoreInv

-----------------------------------------------------------------------------
(* Buffers, strings and prepared scripts.                                  *)

Owner == {"caller"} \cup Str \cup Prepared

(* Nothing is left of a buffer nobody owns.                                *)
LEMMA Untouched ==
    ASSUME MemInv, NEW b \in Buffer, ~Live(b)
    PROVE  /\ \A s \in Str : str[s].buf # b
           /\ \A p \in Prepared : prep[p].buf # b
<1>1. buf[b].owners = {}
  BY DEF Live
<1>2. \A s \in Str : str[s].buf # b
  BY <1>1, NoneAssumption DEF MemInv, StringInv
<1>3. \A p \in Prepared : prep[p].buf # b
  BY <1>1, NoneAssumption DEF MemInv, PreparedInv, NoPrep
<1>4. QED
  BY <1>2, <1>3

(* A buffer that is owned has a text, and its data.                        *)
LEMMA OwnedHasText ==
    ASSUME BufType, BufferInv, NEW b \in Buffer, Live(b)
    PROVE  buf[b].src \in Source /\ buf[b].deleted = 0
<1>1. buf[b].src \in Source \cup {None}
  BY DEF BufType
<1>2. NoBuf.owners = {}
  BY DEF NoBuf
<1>3. QED
  BY <1>1, <1>2 DEF BufferInv, Live

(* An owner lets go.                                                       *)
LEMMA Disowned ==
    ASSUME BufType, BufferInv, NEW b \in Buffer, NEW o,
           buf' = Unowned(buf, b, o)
    PROVE  /\ BufType' /\ BufferInv'
           /\ \A c \in Buffer :
                 /\ buf'[c].src = buf[c].src
                 /\ buf'[c].owners = IF c = b THEN buf[c].owners \ {o}
                                     ELSE buf[c].owners
<1>1. /\ buf[b].src \in Source \cup {None} /\ buf[b].owners \subseteq Owner
      /\ buf[b].deleted \in {0, 1}
      /\ buf[b] = [src |-> buf[b].src, owners |-> buf[b].owners,
                   deleted |-> buf[b].deleted]
  BY DEF BufType, Owner
<1>2. /\ buf' = [buf EXCEPT ![b] = buf'[b]]
      /\ buf'[b] = [src |-> buf[b].src, owners |-> buf[b].owners \ {o},
                    deleted |-> IF buf[b].owners = {o} THEN buf[b].deleted + 1
                                ELSE buf[b].deleted]
  BY <1>1 DEF Unowned, BufType
<1>3. /\ \A c \in Buffer : c # b => buf'[c] = buf[c]
      /\ buf'[b].src = buf[b].src /\ buf'[b].owners = buf[b].owners \ {o}
      /\ buf'[b].deleted = IF buf[b].owners = {o} THEN buf[b].deleted + 1
                           ELSE buf[b].deleted
  BY <1>2 DEF BufType
<1>4. CASE buf[b].src = None
  <2>1. buf[b] = NoBuf
    BY <1>4 DEF BufferInv
  <2>2. buf[b].owners = {} /\ buf[b].owners # {o}
    BY <2>1 DEF NoBuf
  <2>3. buf'[b] = buf[b]
    BY <1>1, <1>2, <2>2
  <2>4. buf' = buf
    BY <1>2, <2>3 DEF BufType
  <2>5. QED
    BY <1>3, <2>2, <2>4 DEF BufType, BufferInv, Live
<1>5. CASE buf[b].src # None
  <2>1. buf[b].deleted = IF buf[b].owners # {} THEN 0 ELSE 1
    BY <1>5 DEF BufferInv, Live
  <2>2. /\ buf'[b].deleted = IF buf'[b].owners # {} THEN 0 ELSE 1
        /\ buf'[b].deleted \in {0, 1}
    <3>1. CASE buf[b].owners = {o}
      BY <1>3, <2>1, <3>1
    <3>2. CASE buf[b].owners # {o}
      <4>1. buf[b].owners \ {o} = {} <=> buf[b].owners = {}
        BY <3>2
      <4>2. QED
        BY <1>3, <2>1, <3>2, <4>1
    <3>3. QED
      BY <3>1, <3>2
  <2>3. BufferInv'
    BY <1>3, <1>5, <2>2 DEF BufferInv, Live
  <2>4. BufType'
    BY <1>1, <1>2, <1>3, <2>2 DEF BufType, Owner
  <2>5. QED
    BY <1>3, <2>3, <2>4
<1>6. QED
  BY <1>4, <1>5

(* An owner joins the ones there are.                                      *)
LEMMA Joined ==
    ASSUME BufType, BufferInv, NEW b \in Buffer, Live(b),
           NEW S \in SUBSET (Str \cup Prepared),
           buf' = [buf EXCEPT ![b].owners = @ \cup S]
    PROVE  /\ BufType' /\ BufferInv'
           /\ \A c \in Buffer :
                 /\ buf'[c].src = buf[c].src
                 /\ buf'[c].owners = IF c = b THEN buf[c].owners \cup S
                                     ELSE buf[c].owners
<1>1. buf[b].owners \cup S \subseteq Owner /\ buf[b].owners \cup S # {}
  BY DEF BufType, Owner, Live
<1>2. /\ BufType'
      /\ \A c \in Buffer :
            /\ buf'[c].src = buf[c].src /\ buf'[c].deleted = buf[c].deleted
            /\ buf'[c].owners = IF c = b THEN buf[c].owners \cup S
                                ELSE buf[c].owners
            /\ c # b => buf'[c] = buf[c]
  BY <1>1 DEF BufType, Owner
<1>3. buf[b].src # None /\ buf[b].deleted = 0
  BY OwnedHasText, NoneAssumption
<1>4. BufferInv'
  BY <1>1, <1>2, <1>3 DEF BufferInv, Live
<1>5. QED
  BY <1>2, <1>4

(* A buffer is given new data, whoever owns it then.                       *)
LEMMA Filled ==
    ASSUME BufType, BufferInv, NEW b \in Buffer, NEW x \in Source,
           NEW S \in SUBSET Owner, NEW d \in {0, 1}, d = 0 <=> S # {},
           buf' = [buf EXCEPT ![b] = [src |-> x, owners |-> S, deleted |-> d]]
    PROVE  /\ BufType' /\ BufferInv'
           /\ buf'[b].src = x /\ buf'[b].owners = S
           /\ \A c \in Buffer : c # b => buf'[c] = buf[c]
<1>1. /\ BufType' /\ buf'[b] = [src |-> x, owners |-> S, deleted |-> d]
      /\ \A c \in Buffer : c # b => buf'[c] = buf[c]
  BY DEF BufType, Owner
<1>2. BufferInv'
  BY <1>1, NoneAssumption DEF BufferInv, Live
<1>3. QED
  BY <1>1, <1>2

LEMMA MakeBufferKeeps ==
    ASSUME MemInv, NEW b \in Buffer, NEW x \in Source, MakeBuffer(b, x)
    PROVE  MemInv'
<1>1. ~Live(b) /\ UNCHANGED <<str, prep>>
  BY DEF MakeBuffer
<1>2. /\ BufType' /\ BufferInv' /\ \A c \in Buffer : c # b => buf'[c] = buf[c]
  <2>1. {"caller"} \in SUBSET Owner /\ {"caller"} # {}
    BY DEF Owner
  <2>2. QED
    BY <2>1, Filled DEF MakeBuffer, MemInv
<1>3. /\ \A s \in Str : str[s].buf # b
      /\ \A p \in Prepared : prep[p].buf # b
  BY <1>1, Untouched
<1>4. StringInv' /\ PreparedInv'
  BY <1>1, <1>2, <1>3 DEF MemInv, StrType, PrepType, StringInv, PreparedInv
<1>5. QED
  BY <1>1, <1>2, <1>4 DEF MemInv, StrType, PrepType

LEMMA ReleaseBufferKeeps ==
    ASSUME MemInv, NEW b \in Buffer, ReleaseBuffer(b)
    PROVE  MemInv'
<1>1. UNCHANGED <<str, prep>> /\ buf' = Unowned(buf, b, "caller")
  BY DEF ReleaseBuffer
<1>2. /\ BufType' /\ BufferInv'
      /\ \A c \in Buffer :
            /\ buf'[c].src = buf[c].src
            /\ buf'[c].owners = IF c = b THEN buf[c].owners \ {"caller"}
                                ELSE buf[c].owners
  BY <1>1, Disowned DEF MemInv
<1>3. StringInv' /\ PreparedInv'
  BY <1>1, <1>2, OwnerAssumption
  DEF MemInv, StrType, PrepType, StringInv, PreparedInv
<1>4. QED
  BY <1>1, <1>2, <1>3 DEF MemInv, StrType, PrepType

LEMMA ChangeDataKeeps ==
    ASSUME MemInv, NEW b \in Buffer, NEW x \in Source, ChangeData(b, x)
    PROVE  MemInv'
<1>1. /\ Live(b) /\ UNCHANGED <<str, prep>> /\ \A s \in Str : str[s].buf # b
      /\ buf' = [buf EXCEPT ![b].src = x]
  BY DEF ChangeData
<1>2. BufType /\ BufferInv /\ buf[b].deleted = 0
  BY <1>1, OwnedHasText DEF MemInv
<1>3. /\ BufType' /\ BufferInv' /\ buf'[b].owners = buf[b].owners
      /\ \A c \in Buffer : c # b => buf'[c] = buf[c]
  <2>1. PICK S \in SUBSET Owner : S = buf[b].owners /\ S # {}
    BY <1>1, <1>2 DEF BufType, Owner, Live
  <2>2. buf' = [buf EXCEPT ![b] = [src |-> x, owners |-> S, deleted |-> 0]]
    <3>1. buf[b] = [src |-> buf[b].src, owners |-> S, deleted |-> 0]
      BY <1>2, <2>1 DEF BufType
    <3>2. [buf[b] EXCEPT !.src = x] = [src |-> x, owners |-> S, deleted |-> 0]
      BY <3>1
    <3>3. QED
      BY <1>1, <3>2
  <2>3. QED
    BY <1>2, <2>1, <2>2, Filled
<1>4. StringInv' /\ PreparedInv'
  BY <1>1, <1>3 DEF MemInv, StrType, PrepType, StringInv, PreparedInv
<1>5. QED
  BY <1>1, <1>3, <1>4 DEF MemInv, StrType, PrepType

LEMMA CollectStringKeeps ==
    ASSUME MemInv, NEW s \in Str, CollectString(s)
    PROVE  MemInv'
<1>1. UNCHANGED prep /\ str' = [str EXCEPT ![s] = NoStr]
  BY DEF CollectString
<1>2. /\ StrType' /\ str'[s] = NoStr /\ NoStr.buf = None
      /\ \A t \in Str : t # s => str'[t] = str[t]
  BY <1>1 DEF MemInv, StrType, NoStr
<1>3. /\ BufType' /\ BufferInv'
      /\ \A c \in Buffer :
            /\ buf'[c].src = buf[c].src /\ buf[c].owners \ {s} \subseteq buf'[c].owners
  <2>1. CASE str[s].buf = None
    BY <2>1 DEF CollectString, MemInv, BufType, BufferInv, Live
  <2>2. CASE str[s].buf # None
    <3>1. str[s].buf \in Buffer /\ buf' = Unowned(buf, str[s].buf, s)
      BY <2>2 DEF CollectString, MemInv, StrType
    <3>2. QED
      BY <3>1, Disowned DEF MemInv
  <2>3. QED
    BY <2>1, <2>2
<1>4. StringInv'
  BY <1>2, <1>3 DEF MemInv, StrType, StringInv
<1>5. PreparedInv'
  BY <1>1, <1>3, OwnerAssumption DEF MemInv, PrepType, PreparedInv
<1>6. QED
  BY <1>1, <1>2, <1>3, <1>4, <1>5 DEF MemInv, PrepType

LEMMA DropCodeKeeps ==
    ASSUME MemInv, NEW s \in Str, DropCode(s)
    PROVE  MemInv'
<1>1. UNCHANGED <<buf, prep>> /\ str' = [str EXCEPT ![s].state = "garbage"]
  BY DEF DropCode
<1>2. StrType' /\ \A t \in Str : str'[t].buf = str[t].buf /\ str'[t].src = str[t].src
  BY <1>1 DEF MemInv, StrType
<1>3. StringInv'
  BY <1>1, <1>2 DEF MemInv, StringInv
<1>4. QED
  BY <1>1, <1>2, <1>3 DEF MemInv, BufType, BufferInv, Live, PrepType, PreparedInv

(* loadJavaScript, for a buffer that owners S join at the same time.       *)
LEMMA Loaded ==
    ASSUME MemInv, NEW b \in Buffer, Live(b), NEW s \in Str, str[s] = NoStr,
           NEW st \in {"used", "garbage"}, str' = LoadedStr(b, s, st),
           NEW S \in SUBSET (Str \cup Prepared),
           buf' = [buf EXCEPT ![b].owners = @ \cup S],
           buf[b].src \in Ascii => s \in S
    PROVE  /\ BufType' /\ StrType' /\ BufferInv' /\ StringInv'
           /\ \A c \in Buffer : buf[c].owners \subseteq buf'[c].owners
           /\ S \subseteq buf'[b].owners
<1>1. BufType /\ BufferInv /\ buf[b].src \in Source
  BY OwnedHasText DEF MemInv
<1>2. /\ BufType' /\ BufferInv'
      /\ \A c \in Buffer :
            /\ buf'[c].src = buf[c].src
            /\ buf'[c].owners = IF c = b THEN buf[c].owners \cup S
                                ELSE buf[c].owners
  BY <1>1, Joined
<1>3. /\ StrType' /\ \A t \in Str : t # s => str'[t] = str[t]
      /\ str'[s].src = buf[b].src
      /\ str'[s].buf = IF buf[b].src \in Ascii THEN b ELSE None
  BY <1>1 DEF LoadedStr, MemInv, StrType
<1>4. StringInv'
  <2>1. SUFFICES ASSUME NEW t \in Str, str'[t].buf # None
                 PROVE  /\ t \in buf'[str'[t].buf].owners
                        /\ str'[t].src = buf'[str'[t].buf].src
    BY DEF StringInv
  <2>2. CASE t = s
    BY <1>2, <1>3, <2>1, <2>2
  <2>3. CASE t # s
    <3>1. /\ str'[t] = str[t] /\ str[t].buf \in Buffer
          /\ t \in buf[str[t].buf].owners /\ str[t].src = buf[str[t].buf].src
      BY <1>3, <2>1, <2>3 DEF MemInv, StrType, StringInv
    <3>2. QED
      BY <1>2, <3>1
  <2>4. QED
    BY <2>2, <2>3
<1>5. QED
  BY <1>2, <1>3, <1>4

(* What LoadedBuf adds.                                                    *)
LEMMA LoadedJoins ==
    ASSUME BufType, NEW b \in Buffer, NEW s \in Str
    PROVE  \E S \in SUBSET (Str \cup Prepared) :
              /\ LoadedBuf(b, s) = [buf EXCEPT ![b].owners = @ \cup S]
              /\ buf[b].src \in Ascii => s \in S
<1>1. CASE buf[b].src \in Ascii
  <2>1. {s} \in SUBSET (Str \cup Prepared)
    OBVIOUS
  <2>2. LoadedBuf(b, s) = [buf EXCEPT ![b].owners = @ \cup {s}]
    BY <1>1 DEF LoadedBuf, StringOwner
  <2>3. QED
    BY <2>1, <2>2
<1>2. CASE buf[b].src \notin Ascii
  <2>1. {} \in SUBSET (Str \cup Prepared)
    OBVIOUS
  <2>2. [buf EXCEPT ![b].owners = @ \cup {}] = buf
    BY DEF BufType
  <2>3. LoadedBuf(b, s) = buf
    BY <1>2 DEF LoadedBuf
  <2>4. QED
    BY <1>2, <2>1, <2>2, <2>3
<1>3. QED
  BY <1>1, <1>2

LEMMA LoadKeeps ==
    ASSUME MemInv, NEW b \in Buffer, Live(b), NEW s \in Str, str[s] = NoStr,
           NEW st \in {"used", "garbage"}, str' = LoadedStr(b, s, st),
           buf' = LoadedBuf(b, s), UNCHANGED prep
    PROVE  MemInv'
<1>1. PICK S \in SUBSET (Str \cup Prepared) :
         /\ buf' = [buf EXCEPT ![b].owners = @ \cup S]
         /\ buf[b].src \in Ascii => s \in S
  BY LoadedJoins DEF MemInv
<1>2. /\ BufType' /\ StrType' /\ BufferInv' /\ StringInv'
      /\ \A c \in Buffer : buf[c].owners \subseteq buf'[c].owners
  BY <1>1, Loaded
<1>3. PreparedInv'
  BY <1>2 DEF MemInv, PrepType, PreparedInv
<1>4. QED
  BY <1>2, <1>3 DEF MemInv, PrepType

LEMMA EvaluateMem ==
    ASSUME MemInv, NEW b \in Buffer, NEW s \in Str, EvaluateJavaScript(b, s)
    PROVE  MemInv' /\ buf[b].src \in Source
<1>1. /\ Live(b) /\ str[s] = NoStr /\ buf' = LoadedBuf(b, s) /\ UNCHANGED prep
      /\ str' = LoadedStr(b, s, "used") \/ str' = LoadedStr(b, s, "garbage")
  BY DEF EvaluateJavaScript, Live
<1>2. QED
  BY <1>1, LoadKeeps, OwnedHasText DEF MemInv

LEMMA EvaluatePreparedMem ==
    ASSUME MemInv, NEW p \in Prepared, NEW s \in Str,
           EvaluatePreparedJavaScript(p, s)
    PROVE  /\ MemInv' /\ prep[p].buf \in Buffer
           /\ buf[prep[p].buf].src \in Source /\ prep[p].code = prep[p].hash
<1>1. prep[p] # NoPrep
  BY DEF EvaluatePreparedJavaScript, NoPrep
<1>2. /\ prep[p].buf \in Buffer /\ Live(prep[p].buf) /\ prep[p].code = prep[p].hash
  BY <1>1 DEF MemInv, PrepType, PreparedInv, Live
<1>3. /\ str[s] = NoStr /\ buf' = LoadedBuf(prep[p].buf, s) /\ UNCHANGED prep
      /\ \/ str' = LoadedStr(prep[p].buf, s, "used")
         \/ str' = LoadedStr(prep[p].buf, s, "garbage")
  BY DEF EvaluatePreparedJavaScript
<1>4. QED
  BY <1>2, <1>3, LoadKeeps, OwnedHasText DEF MemInv

LEMMA PrepareMem ==
    ASSUME MemInv, NEW b \in Buffer, NEW s \in Str, NEW p \in Prepared,
           PrepareJavaScript(b, s, p)
    PROVE  MemInv'
<1>1. /\ Live(b) /\ str[s] = NoStr /\ prep[p] = NoPrep
      /\ str' = LoadedStr(b, s, "garbage")
  BY DEF PrepareJavaScript, Live
<1>2. CASE buf[b].src \in Bad
  BY <1>1, <1>2, LoadKeeps DEF PrepareJavaScript
<1>3. CASE buf[b].src \notin Bad
  <2>1. PICK S \in SUBSET (Str \cup Prepared) :
           /\ LoadedBuf(b, s) = [buf EXCEPT ![b].owners = @ \cup S]
           /\ buf[b].src \in Ascii => s \in S
    BY LoadedJoins DEF MemInv
  <2>2. PICK T \in SUBSET (Str \cup Prepared) : T = S \cup {p}
    OBVIOUS
  <2>3. buf' = [LoadedBuf(b, s) EXCEPT ![b].owners = @ \cup {p}]
    BY <1>3 DEF PrepareJavaScript
  <2>4. buf' = [buf EXCEPT ![b].owners = @ \cup T]
    BY <2>1, <2>2, <2>3, ZenonT(40) DEF MemInv, BufType
  <2>5. /\ BufType' /\ StrType' /\ BufferInv' /\ StringInv'
        /\ \A c \in Buffer : buf[c].owners \subseteq buf'[c].owners
        /\ T \subseteq buf'[b].owners
    BY <1>1, <2>1, <2>2, <2>4, Loaded
  <2>6. buf[b].src \in Source
    BY <1>1, OwnedHasText DEF MemInv
  <2>7. prep' = [prep EXCEPT ![p] = [state |-> "jsi", buf |-> b,
                                     hash |-> buf[b].src, code |-> buf[b].src,
                                     str |-> None]]
    BY <1>3 DEF PrepareJavaScript
  <2>8. /\ PrepType' /\ \A q \in Prepared : q # p => prep'[q] = prep[q]
        /\ prep'[p].state = "jsi" /\ prep'[p].buf = b
        /\ prep'[p].hash = buf[b].src /\ prep'[p].code = buf[b].src
    BY <2>6, <2>7 DEF MemInv, PrepType
  <2>9. PreparedInv'
    BY <2>2, <2>5, <2>6, <2>8, NoneAssumption DEF MemInv, PrepType, PreparedInv
  <2>10. QED
    BY <2>5, <2>8, <2>9 DEF MemInv
<1>4. QED
  BY <1>2, <1>3

(* jsr_create_prepared_script: the share of the call itself is gone when   *)
(* it ends.                                                                *)
LEMMA TakenOverIs ==
    ASSUME BufType, NEW b \in Buffer, NEW x \in Source,
           NEW S \in SUBSET (Str \cup Prepared)
    PROVE  \E d \in {0, 1} :
              /\ d = 0 <=> S # {}
              /\ TakenOver(b, x, S) =
                    [buf EXCEPT ![b] = [src |-> x, owners |-> S, deleted |-> d]]
<1> DEFINE Rec == [src : Source \cup {None}, owners : SUBSET Owner,
                   deleted : {0, 1}]
           made == [src |-> x, owners |-> {"caller"} \cup S, deleted |-> 0]
<1>1. ({"caller"} \cup S) \ {"caller"} = S /\ ({"caller"} \cup S = {"caller"} <=> S = {})
  BY OwnerAssumption
<1>2. PICK bf \in [Buffer -> Rec] : bf = [buf EXCEPT ![b] = made]
  BY DEF BufType, Owner
<1>3. PICK t : t = TakenOver(b, x, S)
  OBVIOUS
<1>4. t = Unowned(bf, b, "caller")
  BY <1>2, <1>3 DEF TakenOver
<1>5. /\ t = [bf EXCEPT ![b] = t[b]]
      /\ t[b] = [src |-> bf[b].src, owners |-> bf[b].owners \ {"caller"},
                 deleted |-> IF bf[b].owners = {"caller"} THEN bf[b].deleted + 1
                             ELSE bf[b].deleted]
  BY <1>4 DEF Unowned
<1>6. /\ bf[b].src = x /\ bf[b].owners = {"caller"} \cup S /\ bf[b].deleted = 0
  BY <1>2 DEF BufType
<1>7. PICK d \in {0, 1} :
         /\ d = 0 <=> S # {}
         /\ d = IF bf[b].owners = {"caller"} THEN bf[b].deleted + 1
                ELSE bf[b].deleted
  <2>1. CASE S = {}
    BY <1>1, <1>6, <2>1
  <2>2. CASE S # {}
    BY <1>1, <1>6, <2>2
  <2>3. QED
    BY <2>1, <2>2
<1>8. t[b] = [src |-> x, owners |-> S, deleted |-> d]
  BY <1>1, <1>5, <1>6, <1>7
<1>9. t = [buf EXCEPT ![b] = [src |-> x, owners |-> S, deleted |-> d]]
  <2>1. \A z : [[buf EXCEPT ![b] = made] EXCEPT ![b] = z] = [buf EXCEPT ![b] = z]
    BY DEF BufType
  <2>2. QED
    BY <1>2, <1>5, <1>8, <2>1
<1>10. QED
  BY <1>3, <1>7, <1>9

LEMMA CreatePreparedMem ==
    ASSUME MemInv, NEW b \in Buffer, NEW x \in Source, NEW s \in Str,
           NEW p \in Prepared, CreatePreparedScript(b, x, s, p),
           CodeOf(x, Cached(x)) = x
    PROVE  MemInv'
<1>1. ~Live(b) /\ prep[p] = NoPrep
  BY DEF CreatePreparedScript
<1>2. PICK st \in {"used", "garbage"} :
         str' = [str EXCEPT ![s] = [state |-> st, src |-> x,
                                    buf |-> IF x \in Ascii THEN b ELSE None]]
  BY DEF CreatePreparedScript
<1>3. PICK S \in SUBSET (Str \cup Prepared) :
         /\ buf' = TakenOver(b, x, S)
         /\ x \in Ascii => s \in S
         /\ \/ UNCHANGED prep
            \/ /\ p \in S
               /\ prep' = [prep EXCEPT ![p] = [state |-> "c", buf |-> b,
                                               hash |-> x, str |-> s,
                                               code |-> x]]
  <2>1. PICK R \in SUBSET (Str \cup Prepared) :
           /\ R = IF x \in Ascii THEN StringOwner(s) ELSE {}
           /\ x \in Ascii => s \in R
    <3>1. {s} \in SUBSET (Str \cup Prepared) /\ {} \in SUBSET (Str \cup Prepared)
      OBVIOUS
    <3>2. CASE x \in Ascii
      BY <3>1, <3>2 DEF StringOwner
    <3>3. CASE x \notin Ascii
      BY <3>1, <3>3
    <3>4. QED
      BY <3>2, <3>3
  <2>2. CASE x \in Bad
    BY <2>1, <2>2 DEF CreatePreparedScript
  <2>3. CASE x \notin Bad
    <3>1. PICK T \in SUBSET (Str \cup Prepared) : T = R \cup {p}
      OBVIOUS
    <3>2. QED
      BY <2>1, <2>3, <3>1 DEF CreatePreparedScript
  <2>4. QED
    BY <2>2, <2>3
<1>4. PICK d \in {0, 1} :
         /\ d = 0 <=> S # {}
         /\ buf' = [buf EXCEPT ![b] = [src |-> x, owners |-> S, deleted |-> d]]
  BY <1>3, TakenOverIs DEF MemInv
<1>5. /\ BufType' /\ BufferInv' /\ buf'[b].src = x /\ buf'[b].owners = S
      /\ \A c \in Buffer : c # b => buf'[c] = buf[c]
  <2>1. S \in SUBSET Owner
    BY DEF Owner
  <2>2. QED
    BY <1>4, <2>1, Filled, ZenonT(40) DEF MemInv
<1>6. /\ \A t \in Str : str[t].buf # b
      /\ \A q \in Prepared : prep[q].buf # b
  BY <1>1, Untouched
<1>7. /\ StrType' /\ \A t \in Str : t # s => str'[t] = str[t]
      /\ str'[s].src = x /\ str'[s].buf = IF x \in Ascii THEN b ELSE None
  BY <1>2 DEF MemInv, StrType
<1>8. StringInv'
  <2>1. SUFFICES ASSUME NEW t \in Str, str'[t].buf # None
                 PROVE  /\ t \in buf'[str'[t].buf].owners
                        /\ str'[t].src = buf'[str'[t].buf].src
    BY DEF StringInv
  <2>2. CASE t = s
    BY <1>3, <1>5, <1>7, <2>1, <2>2
  <2>3. CASE t # s
    <3>1. /\ str'[t] = str[t] /\ str[t].buf \in Buffer
          /\ t \in buf[str[t].buf].owners /\ str[t].src = buf[str[t].buf].src
      BY <1>7, <2>1, <2>3 DEF MemInv, StrType, StringInv
    <3>2. QED
      BY <1>5, <1>6, <3>1
  <2>4. QED
    BY <2>2, <2>3
<1>9. PrepType' /\ PreparedInv'
  <2>1. \A q \in Prepared : prep[q] = NoPrep \/ buf'[prep[q].buf] = buf[prep[q].buf]
    BY <1>5, <1>6 DEF MemInv, PrepType, PreparedInv
  <2>2. CASE UNCHANGED prep
    BY <2>1, <2>2 DEF MemInv, PrepType, PreparedInv
  <2>3. CASE p \in S /\ prep' = [prep EXCEPT ![p] = [state |-> "c", buf |-> b,
                                                    hash |-> x, str |-> s,
                                                    code |-> x]]
    <3>1. /\ PrepType' /\ \A q \in Prepared : q # p => prep'[q] = prep[q]
          /\ prep'[p].state = "c" /\ prep'[p].buf = b
          /\ prep'[p].hash = x /\ prep'[p].code = x
      BY <2>3 DEF MemInv, PrepType
    <3>2. PreparedInv'
      BY <1>5, <2>1, <2>3, <3>1, NoneAssumption DEF MemInv, PreparedInv
    <3>3. QED
      BY <3>1, <3>2
  <2>4. QED
    BY <1>3, <2>2, <2>3
<1>10. QED
  BY <1>5, <1>7, <1>8, <1>9 DEF MemInv

LEMMA DeletePreparedMem ==
    ASSUME MemInv, NEW p \in Prepared, DeletePreparedScript(p)
    PROVE  MemInv'
<1>1. /\ prep[p] # NoPrep /\ UNCHANGED str /\ buf' = Unowned(buf, prep[p].buf, p)
      /\ prep' = [prep EXCEPT ![p] = NoPrep]
  BY DEF DeletePreparedScript
<1>2. prep[p].buf \in Buffer
  BY <1>1 DEF MemInv, PrepType, PreparedInv
<1>3. /\ BufType' /\ BufferInv'
      /\ \A c \in Buffer :
            /\ buf'[c].src = buf[c].src /\ buf[c].owners \ {p} \subseteq buf'[c].owners
  BY <1>1, <1>2, Disowned DEF MemInv
<1>4. /\ PrepType' /\ prep'[p] = NoPrep
      /\ \A q \in Prepared : q # p => prep'[q] = prep[q]
  BY <1>1 DEF MemInv, PrepType, NoPrep
<1>5. PreparedInv'
  BY <1>3, <1>4 DEF MemInv, PrepType, PreparedInv
<1>6. StringInv'
  BY <1>1, <1>3, OwnerAssumption DEF MemInv, StrType, StringInv
<1>7. QED
  BY <1>1, <1>3, <1>4, <1>5, <1>6 DEF MemInv, StrType

(* The isolate takes all strings with it.                                  *)
LEMMA DeleteRuntimeMem ==
    ASSUME MemInv, DeleteRuntime
    PROVE  MemInv'
<1> DEFINE gone == [b \in Buffer |-> {s \in Str : str[s].buf = b}]
<1>1. /\ str' = [s \in Str |-> NoStr] /\ UNCHANGED prep
      /\ buf' = UnownedAll(buf, gone)
  BY DEF DeleteRuntime
<1>2. ASSUME NEW b \in Buffer
      PROVE  /\ buf'[b].src = buf[b].src
             /\ buf'[b].owners = buf[b].owners \ gone[b]
             /\ buf'[b].deleted = IF buf[b].owners # {}
                                     /\ buf[b].owners \subseteq gone[b]
                                  THEN buf[b].deleted + 1 ELSE buf[b].deleted
             /\ buf'[b] = [src |-> buf'[b].src, owners |-> buf'[b].owners,
                           deleted |-> buf'[b].deleted]
             /\ buf[b].owners \subseteq Owner
             /\ buf[b].src \in Source \cup {None} /\ buf[b].deleted \in {0, 1}
  <2>1. buf[b] = [src |-> buf[b].src, owners |-> buf[b].owners,
                  deleted |-> buf[b].deleted]
    BY DEF MemInv, BufType
  <2>2. buf'[b] = [buf[b] EXCEPT !.owners = @ \ gone[b],
                                 !.deleted = IF buf[b].owners # {}
                                                /\ buf[b].owners \subseteq gone[b]
                                             THEN @ + 1 ELSE @]
    BY <1>1 DEF UnownedAll
  <2>3. QED
    BY <2>1, <2>2 DEF MemInv, BufType, Owner
<1>20. \A b \in Buffer : gone[b] \subseteq Str
  OBVIOUS
<1> HIDE DEF gone
<1>3. ASSUME NEW b \in Buffer, buf[b].src = None PROVE buf'[b] = NoBuf
  <2>1. buf[b] = NoBuf /\ buf[b].owners = {} /\ buf[b].deleted = 0
    BY <1>3 DEF MemInv, BufferInv, NoBuf
  <2>2. buf[b].owners \ gone[b] = {}
    BY <2>1
  <2>3. QED
    BY <1>2, <1>3, <2>1, <2>2 DEF NoBuf
<1>4. ASSUME NEW b \in Buffer, buf[b].src # None
      PROVE  /\ buf'[b].deleted \in {0, 1}
             /\ buf'[b].deleted = IF buf'[b].owners # {} THEN 0 ELSE 1
  <2>1. buf[b].deleted = IF buf[b].owners # {} THEN 0 ELSE 1
    BY <1>4 DEF MemInv, BufferInv, Live
  <2>2. buf[b].owners \ gone[b] = {} <=> buf[b].owners \subseteq gone[b]
    OBVIOUS
  <2>3. CASE buf[b].owners = {}
    BY <1>2, <2>1, <2>2, <2>3
  <2>4. CASE buf[b].owners # {} /\ buf[b].owners \subseteq gone[b]
    <3>1. buf'[b].owners = {}
      BY <1>2, <2>2, <2>4
    <3>2. buf[b].deleted = 0
      BY <2>1, <2>4
    <3>3. buf'[b].deleted = 0 + 1
      BY <1>2, <2>4, <3>2
    <3>4. QED
      BY <3>1, <3>3
  <2>5. CASE ~(buf[b].owners \subseteq gone[b])
    <3>1. buf'[b].owners # {} /\ buf[b].owners # {}
      BY <1>2, <2>2, <2>5
    <3>2. buf'[b].deleted = 0
      BY <1>2, <2>1, <2>5, <3>1
    <3>3. QED
      BY <3>1, <3>2
  <2>6. QED
    BY <2>3, <2>4, <2>5
<1>5. BufType'
  <2>1. buf' = [b \in Buffer |-> buf'[b]]
    BY <1>1 DEF UnownedAll
  <2>2. ASSUME NEW b \in Buffer
        PROVE  buf'[b] \in [src : Source \cup {None},
                            owners : SUBSET ({"caller"} \cup Str \cup Prepared),
                            deleted : {0, 1}]
    <3>1. CASE buf[b].src = None
      BY <1>3, <3>1 DEF NoBuf
    <3>2. CASE buf[b].src # None
      <4>1. /\ buf'[b].src \in Source \cup {None}
            /\ buf'[b].owners \in SUBSET ({"caller"} \cup Str \cup Prepared)
            /\ buf'[b].deleted \in {0, 1}
        BY <1>2, <1>4, <3>2 DEF Owner
      <4>2. buf'[b] = [src |-> buf'[b].src, owners |-> buf'[b].owners,
                       deleted |-> buf'[b].deleted]
        BY <1>2
      <4>3. QED
        BY <4>1, <4>2
    <3>3. QED
      BY <3>1, <3>2
  <2>3. QED
    BY <2>1, <2>2 DEF BufType
<1>6. BufferInv'
  BY <1>2, <1>3, <1>4 DEF BufferInv, Live
<1>7. StrType' /\ StringInv'
  BY <1>1 DEF StrType, StringInv, NoStr
<1>8. PrepType' /\ PreparedInv'
  <2>1. ASSUME NEW p \in Prepared, NEW b \in Buffer, p \in buf[b].owners
        PROVE  p \in buf'[b].owners
    <3>1. p \notin gone[b]
      BY <1>20, OwnerAssumption
    <3>2. QED
      BY <1>2, <2>1, <3>1
  <2>2. QED
    BY <1>1, <2>1 DEF MemInv, PrepType, PreparedInv
<1>9. QED
  BY <1>5, <1>6, <1>7, <1>8 DEF MemInv

(* A process starts with nothing in memory.                                *)
LEMMA RestartMem ==
    ASSUME NEW v \in Version, Restart(v)
    PROVE  MemInv'
<1>1. /\ buf' = [b \in Buffer |-> NoBuf] /\ str' = [s \in Str |-> NoStr]
      /\ prep' = [p \in Prepared |-> NoPrep]
  BY DEF Restart
<1>2. BufType' /\ BufferInv'
  BY <1>1 DEF BufType, BufferInv, NoBuf
<1>3. StrType' /\ StringInv'
  BY <1>1 DEF StrType, StringInv, NoStr
<1>4. PrepType' /\ PreparedInv'
  BY <1>1 DEF PrepType, PreparedInv, NoPrep
<1>5. QED
  BY <1>2, <1>3, <1>4 DEF MemInv

-----------------------------------------------------------------------------
(* The scripts that run, and the store.                                    *)

(* What the store returns for a source is its code: the signature has the  *)
(* hash of the text and the version.                                       *)
LEMMA CodeIsRight ==
    ASSUME StoreInv, NEW x \in Source
    PROVE  CodeOf(x, Cached(x)) = x /\ Keeps(x) \in BOOLEAN
<1>1. <<x, version>> \in Key /\ hasStore \in BOOLEAN
  BY DEF StoreInv, Key
<1>2. CASE Cached(x) = NoEntry
  <2>1. Cached(x).intact = FALSE
    BY <1>2 DEF NoEntry
  <2>2. QED
    BY <1>1, <2>1 DEF CodeOf, Keeps
<1>3. CASE Cached(x) # NoEntry
  <2>1. /\ Cached(x) = store[<<x, version>>]
        /\ Fits(Cached(x), <<x, version>>, ranToEnd)
    BY <1>1, <1>3 DEF Cached, Signature, StoreInv
  <2>2. Cached(x).src = x
    BY <2>1 DEF Fits
  <2>3. QED
    BY <1>1, <2>2 DEF CodeOf, Keeps
<1>4. QED
  BY <1>2, <1>3

LEMMA Started ==
    ASSUME StackInv, MayCall, NEW f \in Running, stack' = Append(stack, f)
    PROVE  StackInv'
<1>1. /\ stack' \in Seq(Running) /\ Len(stack') = Len(stack) + 1
      /\ Len(stack) \in Nat
  BY AppendProperties, LenProperties DEF StackInv
<1>2. Len(stack') <= MaxDepth
  BY <1>1, BoundAssumption DEF MayCall
<1>3. QED
  BY <1>1, <1>2 DEF StackInv

LEMMA FrameRuns ==
    ASSUME NEW x \in Source, NEW s \in Str \cup {None},
           NEW b \in Buffer \cup {None}, NEW keep \in BOOLEAN
    PROVE  Frame(x, x, s, b, keep) \in Running
BY DEF Frame, Running

LEMMA StoreSame ==
    ASSUME StoreInv, runtime' \in BOOLEAN,
           UNCHANGED <<version, hasStore, store, writes, ranToEnd>>
    PROVE  StoreInv'
BY DEF StoreInv

LEMMA EvaluateKeeps ==
    ASSUME IInv, NEW b \in Buffer, NEW s \in Str, EvaluateJavaScript(b, s)
    PROVE  IInv'
<1>1. MemInv /\ StackInv /\ StoreInv
  BY DEF IInv
<1>2. MemInv' /\ buf[b].src \in Source
  BY <1>1, EvaluateMem
<1>3. PICK x \in Source : x = buf[b].src
  BY <1>2
<1>4. CodeOf(x, Cached(x)) = x /\ Keeps(x) \in BOOLEAN
  BY <1>1, CodeIsRight
<1>5. \/ UNCHANGED stack
      \/ stack' = Append(stack, Frame(x, x, s, b, Keeps(x)))
  BY <1>3, <1>4 DEF EvaluateJavaScript
<1>6. MayCall /\ UNCHANGED <<version, runtime, hasStore, store, writes, ranToEnd>>
  BY DEF EvaluateJavaScript
<1>7. StackInv'
  <2>1. Frame(x, x, s, b, Keeps(x)) \in Running
    BY <1>4, FrameRuns
  <2>2. QED
    BY <1>1, <1>5, <1>6, <2>1, Started DEF StackInv
<1>8. StoreInv'
  BY <1>1, <1>6, StoreSame DEF StoreInv
<1>9. QED
  BY <1>2, <1>7, <1>8 DEF IInv

LEMMA EvaluatePreparedKeeps ==
    ASSUME IInv, NEW p \in Prepared, NEW s \in Str,
           EvaluatePreparedJavaScript(p, s)
    PROVE  IInv'
<1>1. MemInv /\ StackInv /\ StoreInv
  BY DEF IInv
<1>2. PICK b \in Buffer : b = prep[p].buf
  BY <1>1, EvaluatePreparedMem
<1>3. PICK x \in Source : x = buf[b].src
  BY <1>1, <1>2, EvaluatePreparedMem
<1>4. MemInv' /\ prep[p].code = prep[p].hash
  BY <1>1, EvaluatePreparedMem
<1>5. \/ UNCHANGED stack
      \/ stack' = Append(stack, Frame(x, x, s, b, FALSE))
  BY <1>2, <1>3, <1>4 DEF EvaluatePreparedJavaScript, HashMatches
<1>6. MayCall /\ UNCHANGED <<version, runtime, hasStore, store, writes, ranToEnd>>
  BY DEF EvaluatePreparedJavaScript
<1>7. StackInv'
  <2>1. Frame(x, x, s, b, FALSE) \in Running
    BY FrameRuns
  <2>2. QED
    BY <1>1, <1>5, <1>6, <2>1, Started DEF StackInv
<1>8. StoreInv'
  BY <1>1, <1>6, StoreSame DEF StoreInv
<1>9. QED
  BY <1>4, <1>7, <1>8 DEF IInv

LEMMA RunScriptKeeps ==
    ASSUME IInv, NEW x \in Source, RunScript(x)
    PROVE  IInv'
<1>1. MemInv /\ StackInv /\ StoreInv
  BY DEF IInv
<1>2. /\ MayCall /\ stack' = Append(stack, Frame(x, x, None, None, FALSE))
      /\ UNCHANGED <<version, runtime, hasStore, store, writes, ranToEnd, buf,
                     str, prep>>
  BY DEF RunScript
<1>3. Frame(x, x, None, None, FALSE) \in Running
  BY FrameRuns
<1>4. StackInv' /\ StoreInv'
  BY <1>1, <1>2, <1>3, Started, StoreSame DEF StoreInv
<1>5. MemInv'
  BY <1>1, <1>2 DEF MemInv, BufType, StrType, PrepType, BufferInv, Live,
                    StringInv, PreparedInv
<1>6. QED
  BY <1>4, <1>5 DEF IInv

LEMMA RunPreparedKeeps ==
    ASSUME IInv, NEW p \in Prepared, RunPreparedScript(p)
    PROVE  IInv'
<1>1. MemInv /\ StackInv /\ StoreInv
  BY DEF IInv
<1>2. /\ MayCall /\ stack' = Append(stack, HandleFrame(p)) /\ prep[p].state = "c"
      /\ UNCHANGED <<version, runtime, hasStore, store, writes, ranToEnd, buf,
                     str, prep>>
  BY DEF RunPreparedScript
<1>3. HandleFrame(p) \in Running
  <2>1. /\ prep[p].hash \in Source /\ prep[p].code = prep[p].hash
        /\ prep[p].str \in Str \cup {None}
    BY <1>1, <1>2 DEF MemInv, PrepType, PreparedInv, NoPrep
  <2>2. QED
    BY <2>1, FrameRuns DEF HandleFrame
<1>4. StackInv' /\ StoreInv'
  BY <1>1, <1>2, <1>3, Started, StoreSame DEF StoreInv
<1>5. MemInv'
  BY <1>1, <1>2 DEF MemInv, BufType, StrType, PrepType, BufferInv, Live,
                    StringInv, PreparedInv
<1>6. QED
  BY <1>4, <1>5 DEF IInv

(* A script ends; one that was compiled without cached data and did not    *)
(* throw is given to the store.                                            *)
LEMMA EndRunKeeps ==
    ASSUME IInv, NEW ok \in BOOLEAN, EndRun(ok)
    PROVE  IInv'
<1>1. MemInv /\ StackInv /\ StoreInv
  BY DEF IInv
<1>2. Len(stack) \in Nat \ {0} /\ stack \in Seq(Running)
  BY <1>1, EmptySeq, LenProperties DEF EndRun, StackInv
<1>3. PICK f \in Running : f = Last(stack)
  BY <1>2, ElementOfSeq DEF Last
<1>4. /\ writes' = Persisted([f EXCEPT !.keep = KeepsRun(f, ok)])
      /\ ranToEnd' = IF ok THEN ranToEnd \cup {f.code} ELSE ranToEnd
      /\ stack' = Front(stack)
      /\ UNCHANGED <<version, runtime, hasStore, store, buf, str, prep>>
  BY <1>3 DEF EndRun
<1>5. StackInv'
  <2>1. PICK n \in Nat : n = Len(stack) - 1
    BY <1>2
  <2>2. \A i \in 1 .. n : stack[i] \in Running
    BY <1>2, <2>1, ElementOfSeq
  <2>3. SubSeq(stack, 1, n) \in Seq(Running) /\ Len(SubSeq(stack, 1, n)) = n
    BY <2>2, SubSeqProperties
  <2>4. stack' = SubSeq(stack, 1, n)
    BY <1>4, <2>1 DEF Front
  <2>5. n <= MaxDepth
    BY <1>1, <1>2, <2>1, BoundAssumption DEF StackInv
  <2>6. QED
    BY <2>3, <2>4, <2>5 DEF StackInv
<1>6. StoreInv'
  <2>1. /\ f.src \in Source /\ f.code = f.src /\ f.keep \in BOOLEAN
        /\ ranToEnd \subseteq ranToEnd'
    BY <1>4 DEF Running
  <2>2. /\ [f EXCEPT !.keep = KeepsRun(f, ok)].keep = (f.keep /\ ok)
        /\ [f EXCEPT !.keep = KeepsRun(f, ok)].src = f.src
        /\ [f EXCEPT !.keep = KeepsRun(f, ok)].code = f.src
    BY <2>1 DEF Running, KeepsRun
  <2>3. ASSUME NEW w \in writes'
        PROVE  w \in [key : Key, entry : Entry] /\ Fits(w.entry, w.key, ranToEnd')
    <3>1. CASE w \in writes
      BY <1>1, <2>1, <3>1 DEF StoreInv, Fits
    <3>2. CASE w \notin writes
      <4>1. /\ f.keep /\ ok
            /\ w = [key |-> <<f.src, version>>,
                    entry |-> [src |-> f.src, version |-> version,
                               intact |-> TRUE]]
        BY <1>4, <2>2, <2>3, <3>2 DEF Persisted, Signature
      <4>2. f.src \in ranToEnd' /\ version \in Version
        BY <1>1, <1>4, <2>1, <4>1 DEF StoreInv
      <4>3. QED
        BY <2>1, <4>1, <4>2 DEF Fits, Key, Entry
    <3>3. QED
      BY <3>1, <3>2
  <2>4. \A k \in Key : store'[k] = NoEntry \/ Fits(store'[k], k, ranToEnd')
    BY <1>1, <1>4, <2>1 DEF StoreInv, Fits
  <2>5. QED
    BY <1>1, <1>4, <2>3, <2>4 DEF StoreInv
<1>7. MemInv'
  BY <1>1, <1>4 DEF MemInv, BufType, StrType, PrepType, BufferInv, Live,
                    StringInv, PreparedInv
<1>8. QED
  BY <1>5, <1>6, <1>7 DEF IInv

(* The application writes, loses or damages entries.                       *)
LEMMA StoreKeeps ==
    ASSUME IInv, (\E w \in writes : FinishWrite(w)) \/ (\E k \in Key : LoseEntry(k))
    PROVE  IInv'
<1>1. MemInv /\ StackInv /\ StoreInv
  BY DEF IInv
<1>2. UNCHANGED <<version, runtime, hasStore, buf, str, prep, stack, ranToEnd>>
  BY DEF FinishWrite, LoseEntry, memVars
<1>3. CASE \E w \in writes : FinishWrite(w)
  <2>1. PICK w \in writes : FinishWrite(w)
    BY <1>3
  <2>2. /\ w.key \in Key /\ w.entry \in Entry /\ Fits(w.entry, w.key, ranToEnd)
    BY <1>1 DEF StoreInv
  <2>3. /\ store' = [store EXCEPT ![w.key] = w.entry]
        /\ writes' \subseteq writes
    BY <2>1 DEF FinishWrite
  <2>4. QED
    <3>1. StoreInv'
      BY <1>1, <1>2, <2>2, <2>3 DEF StoreInv
    <3>2. MemInv' /\ StackInv'
      BY <1>1, <1>2 DEF MemInv, BufType, StrType, PrepType, BufferInv, Live,
                        StringInv, PreparedInv, StackInv
    <3>3. QED
      BY <3>1, <3>2 DEF IInv
<1>4. CASE \E k \in Key : LoseEntry(k)
  <2>1. PICK k \in Key : LoseEntry(k)
    BY <1>4
  <2>2. /\ store[k] \in Entry /\ Fits(store[k], k, ranToEnd) /\ UNCHANGED writes
    BY <1>1, <2>1 DEF LoseEntry, StoreInv
  <2>3. PICK e \in Entry : /\ store' = [store EXCEPT ![k] = e]
                           /\ e = NoEntry \/ Fits(e, k, ranToEnd)
    <3>1. NoEntry \in Entry /\ [store[k] EXCEPT !.intact = FALSE] \in Entry
      BY <2>2 DEF Entry, NoEntry
    <3>2. Fits([store[k] EXCEPT !.intact = FALSE], k, ranToEnd)
      BY <2>2 DEF Entry, Fits
    <3>3. QED
      BY <2>1, <3>1, <3>2 DEF LoseEntry
  <2>4. StoreInv'
    BY <1>1, <1>2, <2>2, <2>3 DEF StoreInv
  <2>5. MemInv' /\ StackInv'
    BY <1>1, <1>2 DEF MemInv, BufType, StrType, PrepType, BufferInv, Live,
                      StringInv, PreparedInv, StackInv
  <2>6. QED
    BY <2>4, <2>5 DEF IInv
<1>5. QED
  BY <1>3, <1>4

-----------------------------------------------------------------------------
(* The invariant and what follows from it.                                 *)

(* A step on the memory alone.                                             *)
LEMMA MemoryKeeps ==
    ASSUME IInv, MemInv',
           UNCHANGED <<version, hasStore, store, writes, stack, ranToEnd>>,
           runtime' \in BOOLEAN
    PROVE  IInv'
<1>1. StackInv /\ StoreInv
  BY DEF IInv
<1>2. StoreInv'
  BY <1>1, StoreSame
<1>3. StackInv'
  BY <1>1 DEF StackInv
<1>4. QED
  BY <1>2, <1>3 DEF IInv

LEMMA InitIInv == Init => IInv
<1>1. SUFFICES ASSUME Init PROVE IInv
  OBVIOUS
<1>2. BufType /\ BufferInv
  BY <1>1 DEF Init, BufType, BufferInv, NoBuf
<1>3. StrType /\ StringInv
  BY <1>1 DEF Init, StrType, StringInv, NoStr
<1>4. PrepType /\ PreparedInv
  BY <1>1 DEF Init, PrepType, PreparedInv, NoPrep
<1>5. StackInv
  BY <1>1, EmptySeq, BoundAssumption DEF Init, StackInv
<1>6. StoreInv
  <2>1. NoEntry \in Entry
    BY DEF NoEntry, Entry
  <2>2. QED
    BY <1>1, <2>1 DEF Init, StoreInv
<1>7. QED
  BY <1>2, <1>3, <1>4, <1>5, <1>6 DEF IInv, MemInv

LEMMA NextIInv == IInv /\ [Next]_vars => IInv'
<1>1. SUFFICES ASSUME IInv, [Next]_vars PROVE IInv'
  OBVIOUS
<1>2. MemInv /\ StackInv /\ StoreInv /\ runtime \in BOOLEAN
  BY <1>1 DEF IInv, StoreInv
<1>3. ASSUME NEW b \in Buffer, NEW x \in Source, MakeBuffer(b, x) PROVE IInv'
  BY <1>1, <1>2, <1>3, MakeBufferKeeps, MemoryKeeps DEF MakeBuffer
<1>4. ASSUME NEW b \in Buffer, NEW x \in Source, ChangeData(b, x) PROVE IInv'
  BY <1>1, <1>2, <1>4, ChangeDataKeeps, MemoryKeeps DEF ChangeData
<1>5. ASSUME NEW b \in Buffer, ReleaseBuffer(b) PROVE IInv'
  BY <1>1, <1>2, <1>5, ReleaseBufferKeeps, MemoryKeeps DEF ReleaseBuffer
<1>6. ASSUME NEW b \in Buffer, NEW s \in Str, EvaluateJavaScript(b, s) PROVE IInv'
  BY <1>1, <1>6, EvaluateKeeps
<1>7. ASSUME NEW b \in Buffer, NEW s \in Str, NEW p \in Prepared,
             PrepareJavaScript(b, s, p)
      PROVE  IInv'
  BY <1>1, <1>2, <1>7, PrepareMem, MemoryKeeps DEF PrepareJavaScript
<1>8. ASSUME NEW b \in Buffer, NEW x \in Source, NEW s \in Str, NEW p \in Prepared,
             CreatePreparedScript(b, x, s, p)
      PROVE  IInv'
  <2>1. CodeOf(x, Cached(x)) = x
    BY <1>2, CodeIsRight
  <2>2. MemInv'
    BY <1>2, <1>8, <2>1, CreatePreparedMem
  <2>3. QED
    BY <1>1, <1>2, <1>8, <2>2, MemoryKeeps DEF CreatePreparedScript
<1>9. ASSUME NEW s \in Str, CollectString(s) PROVE IInv'
  BY <1>1, <1>2, <1>9, CollectStringKeeps, MemoryKeeps DEF CollectString
<1>10. ASSUME NEW s \in Str, DropCode(s) PROVE IInv'
  BY <1>1, <1>2, <1>10, DropCodeKeeps, MemoryKeeps DEF DropCode
<1>11. ASSUME NEW p \in Prepared, NEW s \in Str, EvaluatePreparedJavaScript(p, s)
       PROVE  IInv'
  BY <1>1, <1>11, EvaluatePreparedKeeps
<1>12. ASSUME NEW p \in Prepared, RunPreparedScript(p) PROVE IInv'
  BY <1>1, <1>12, RunPreparedKeeps
<1>13. ASSUME NEW p \in Prepared, DeletePreparedScript(p) PROVE IInv'
  BY <1>1, <1>2, <1>13, DeletePreparedMem, MemoryKeeps DEF DeletePreparedScript
<1>14. ASSUME NEW x \in Source, RunScript(x) PROVE IInv'
  BY <1>1, <1>14, RunScriptKeeps
<1>15. ASSUME NEW ok \in BOOLEAN, EndRun(ok) PROVE IInv'
  BY <1>1, <1>15, EndRunKeeps
<1>16. CASE (\E w \in writes : FinishWrite(w)) \/ (\E k \in Key : LoseEntry(k))
  BY <1>1, <1>16, StoreKeeps
<1>17. CASE DeleteRuntime
  BY <1>1, <1>2, <1>17, DeleteRuntimeMem, MemoryKeeps DEF DeleteRuntime
<1>18. ASSUME NEW v \in Version, Restart(v) PROVE IInv'
  <2>1. MemInv'
    BY <1>18, RestartMem
  <2>2. StackInv'
    BY <1>18, EmptySeq, BoundAssumption DEF Restart, StackInv
  <2>3. StoreInv'
    BY <1>2, <1>18 DEF Restart, StoreInv
  <2>4. QED
    BY <2>1, <2>2, <2>3 DEF IInv
<1>19. CASE UNCHANGED vars
  <2>1. MemInv'
    BY <1>2, <1>19 DEF vars, memVars, MemInv, BufType, StrType, PrepType,
                       BufferInv, Live, StringInv, PreparedInv
  <2>2. QED
    BY <1>1, <1>2, <1>19, <2>1, MemoryKeeps DEF vars, memVars
<1>20. QED
  BY <1>1, <1>3, <1>4, <1>5, <1>6, <1>7, <1>8, <1>9, <1>10, <1>11, <1>12, <1>13,
     <1>14, <1>15, <1>16, <1>17, <1>18, <1>19 DEF Next

LEMMA Invariance == Spec => []IInv
BY InitIInv, NextIInv, PTL DEF Spec

(* The code that runs is that of the source the caller gave, and the store *)
(* has under a signature only code of that source and version that ran to  *)
(* its end, for any texts, versions, restarts and damage to the store.     *)
THEOREM CodeIsOfItsSourceHolds == Spec => []CodeIsOfItsSource
<1>1. IInv => CodeIsOfItsSource
  <2>1. SUFFICES ASSUME IInv PROVE CodeIsOfItsSource
    OBVIOUS
  <2>2. MemInv /\ StackInv /\ StoreInv
    BY <2>1 DEF IInv
  <2>3. TypeOK
    <3>1. ASSUME NEW k \in Key, store[k] # NoEntry
          PROVE  store[k].src \in Source /\ store[k].version \in Version
      BY <2>2, <3>1 DEF StoreInv, Fits, Key
    <3>2. ASSUME NEW b \in Buffer
          PROVE  /\ buf[b].src \in Source \cup {None}
                 /\ buf[b].owners \subseteq {"caller"} \cup Str \cup Prepared
                 /\ buf[b].deleted \in 0 .. 1
      BY <2>2 DEF MemInv, BufType
    <3>3. /\ \A s \in Str : str[s].state \in {"none", "used", "garbage"}
          /\ \A p \in Prepared : prep[p].state \in {"none", "jsi", "c"}
      BY <2>2 DEF MemInv, StrType, PrepType
    <3>4. Len(stack) \in 0 .. MaxDepth
      BY <2>2, LenProperties, BoundAssumption DEF StackInv
    <3>5. QED
      BY <2>2, <3>1, <3>2, <3>3, <3>4 DEF StoreInv, TypeOK
  <2>4. RunsItsSource
    <3>1. ASSUME NEW i \in 1 .. Len(stack) PROVE stack[i].code = stack[i].src
      <4>1. stack[i] \in Running
        BY <2>2, ElementOfSeq DEF StackInv
      <4>2. QED
        BY <4>1 DEF Running
    <3>2. \A p \in Prepared : prep[p].code = prep[p].hash
      BY <2>2 DEF MemInv, PreparedInv, NoPrep
    <3>3. QED
      BY <3>1, <3>2 DEF RunsItsSource
  <2>5. StoreHasWhatRan
    BY <2>2 DEF StoreInv, Fits, StoreHasWhatRan
  <2>6. QED
    BY <2>3, <2>4, <2>5 DEF CodeIsOfItsSource
<1>2. QED
  BY <1>1, Invariance, PTL

(* The data of a buffer is there while V8 has a string on it, with the     *)
(* text the string was made of, and is given back once, with the last of   *)
(* its owners, for any number of buffers, strings and prepared scripts.    *)
THEOREM BuffersOutliveUseHolds == Spec => []BuffersOutliveUse
<1>1. IInv => BuffersOutliveUse
  <2>1. SUFFICES ASSUME IInv PROVE BuffersOutliveUse
    OBVIOUS
  <2>2. BufType /\ StrType /\ BufferInv /\ StringInv
    BY <2>1 DEF IInv, MemInv
  <2>3. SourceOutlivesCode
    <3>1. SUFFICES ASSUME NEW s \in Str, str[s].buf # None
                   PROVE  /\ buf[str[s].buf].deleted = 0
                          /\ buf[str[s].buf].src = str[s].src
      BY DEF SourceOutlivesCode
    <3>2. /\ str[s].buf \in Buffer /\ s \in buf[str[s].buf].owners
          /\ str[s].src = buf[str[s].buf].src
      BY <2>2, <3>1 DEF StrType, StringInv
    <3>3. Live(str[s].buf)
      BY <3>2 DEF Live
    <3>4. QED
      BY <2>2, <3>2, <3>3, OwnedHasText
  <2>4. GivenBackWithLastOwner
    BY <2>2 DEF BufferInv, GivenBackWithLastOwner
  <2>5. QED
    BY <2>3, <2>4 DEF BuffersOutliveUse
<1>2. QED
  BY <1>1, Invariance, PTL
=============================================================================
