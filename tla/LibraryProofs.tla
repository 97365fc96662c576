---------------------------- MODULE LibraryProofs ----------------------------
(***************************************************************************)
(* Proofs about scope_exit, for every set of objects and lambdas, and      *)
(* about the parser of SIMPLE-TLV and the command APDU, for data of every  *)
(* size.                                                                   *)
(***************************************************************************)
EXTENDS TlvSimple, Apdu, ScopeExit, FiniteSetTheorems, SequenceTheorems, TLAPS

-----------------------------------------------------------------------------
(* scope_exit.                                                             *)

ScopeTypeOK ==
    /\ m_lambda \in [Objects -> Lambdas \cup {NoLambda}]
    /\ m_call \in [Objects -> BOOLEAN]
    /\ executing \subseteq Objects /\ dying \subseteq executing
    /\ called \in [Lambdas -> Nat]
    /\ released \subseteq Lambdas

\* An object whose lambda executes is there, and does not call it again.
ExecutingOnce ==
    \A o \in executing : Exists(o) /\ ~m_call[o]

\* CalledExactlyOnce without the counting.
Held(l) == \E o \in Objects : Holders(l) = {o} /\ called[l] = 0 /\ l \notin released
Called(l) == Holders(l) = {} /\ called[l] = 1 /\ l \notin released
Released(l) == Holders(l) = {} /\ called[l] = 0 /\ l \in released

Accounted == \A l \in Lambdas : Unused(l) \/ Held(l) \/ Called(l) \/ Released(l)

ScopeInv == ScopeTypeOK /\ ExecutingOnce /\ Accounted

LEMMA ScopeInvInit == ScopeInit => ScopeInv
BY ScopeAssumption
DEF ScopeInit, ScopeInv, ScopeTypeOK, ExecutingOnce, Accounted, Unused

LEMMA ScopeTypeStep == ScopeTypeOK /\ ExecutingOnce /\ ScopeNext => ScopeTypeOK'
<1> SUFFICES ASSUME ScopeTypeOK, ExecutingOnce, ScopeNext PROVE ScopeTypeOK'
  OBVIOUS
<1> USE DEF ScopeTypeOK, Exists, CallLambda
<1>1. ASSUME NEW o \in Objects, NEW l \in Lambdas, scope_exit(o, l) PROVE ScopeTypeOK'
  BY <1>1 DEF scope_exit
<1>2. ASSUME NEW o \in Objects, NEW other \in Objects, MoveConstruct(o, other) PROVE ScopeTypeOK'
  BY <1>2 DEF MoveConstruct
<1>3. ASSUME NEW o \in Objects, release(o) PROVE ScopeTypeOK'
  BY <1>3 DEF release
<1>4. ASSUME NEW o \in Objects, reset(o) PROVE ScopeTypeOK'
  <2>1. CASE m_call[o]
    <3>1. m_lambda[o] \in Lambdas /\ called' = [called EXCEPT ![m_lambda[o]] = @ + 1]
      BY <1>4, <2>1 DEF reset
    <3>2. called' \in [Lambdas -> Nat]
      BY <3>1
    <3> QED
      BY <1>4, <2>1, <3>2 DEF reset
  <2>2. CASE ~m_call[o]
    BY <1>4, <2>2 DEF reset
  <2> QED
    BY <2>1, <2>2
<1>5. ASSUME NEW o \in Objects, LambdaReturns(o) PROVE ScopeTypeOK'
  BY <1>5 DEF LambdaReturns
<1>6. ASSUME NEW o \in Objects, Destroy(o) PROVE ScopeTypeOK'
  <2>1. CASE m_call[o]
    <3>1. m_lambda[o] \in Lambdas /\ called' = [called EXCEPT ![m_lambda[o]] = @ + 1]
      BY <1>6, <2>1 DEF Destroy
    <3>2. called' \in [Lambdas -> Nat]
      BY <3>1
    <3> QED
      BY <1>6, <2>1, <3>2 DEF Destroy
  <2>2. CASE ~m_call[o]
    BY <1>6, <2>2 DEF Destroy
  <2> QED
    BY <2>1, <2>2
<1> QED
  BY <1>1, <1>2, <1>3, <1>4, <1>5, <1>6 DEF ScopeNext

LEMMA ExecutingOnceStep == ScopeTypeOK /\ ExecutingOnce /\ ScopeNext => ExecutingOnce'
<1> SUFFICES ASSUME ScopeTypeOK, ExecutingOnce, ScopeNext PROVE ExecutingOnce'
  OBVIOUS
<1> USE ScopeAssumption DEF ScopeTypeOK, ExecutingOnce, Exists, CallLambda
<1>1. ASSUME NEW o \in Objects, NEW l \in Lambdas, scope_exit(o, l) PROVE ExecutingOnce'
  BY <1>1 DEF scope_exit
<1>2. ASSUME NEW o \in Objects, NEW other \in Objects, MoveConstruct(o, other) PROVE ExecutingOnce'
  BY <1>2 DEF MoveConstruct
<1>3. ASSUME NEW o \in Objects, release(o) PROVE ExecutingOnce'
  BY <1>3 DEF release
<1>4. ASSUME NEW o \in Objects, reset(o) PROVE ExecutingOnce'
  BY <1>4 DEF reset
<1>5. ASSUME NEW o \in Objects, LambdaReturns(o) PROVE ExecutingOnce'
  BY <1>5 DEF LambdaReturns
<1>6. ASSUME NEW o \in Objects, Destroy(o) PROVE ExecutingOnce'
  BY <1>6 DEF Destroy
<1> QED
  BY <1>1, <1>2, <1>3, <1>4, <1>5, <1>6 DEF ScopeNext

\* A call, by reset or by the destructor, is that of the lambda's one holder.
LEMMA CallAccounted ==
    ASSUME ScopeTypeOK, Accounted, NEW o \in Objects, Exists(o), m_call[o], CallLambda(o),
           m_lambda' = m_lambda, released' = released
    PROVE  Accounted'
<1> USE ScopeAssumption DEF ScopeTypeOK
<1> DEFINE l == m_lambda[o]
<1>1. l \in Lambdas /\ o \in Holders(l)
  BY DEF Exists, Holders
<1>2. Holders(l) = {o} /\ called[l] = 0 /\ l \notin released
  BY <1>1 DEF Accounted, Unused, Held, Called, Released
<1>3. Called(l)'
  <2>1. Holders(l)' = {}
    BY <1>2 DEF CallLambda, Holders
  <2>2. called'[l] = 1
    BY <1>1, <1>2 DEF CallLambda
  <2> QED
    BY <1>2, <2>1, <2>2 DEF Called
<1>4. ASSUME NEW k \in Lambdas, k # l PROVE Holders(k)' = Holders(k) /\ called'[k] = called[k]
  BY <1>1, <1>4 DEF CallLambda, Holders
<1> QED
  BY <1>3, <1>4 DEF Accounted, Unused, Held, Called, Released

LEMMA AccountedStep == ScopeInv /\ ScopeNext => Accounted'
<1> SUFFICES ASSUME ScopeTypeOK, ExecutingOnce, Accounted, ScopeNext PROVE Accounted'
  BY DEF ScopeInv
<1> USE ScopeAssumption DEF ScopeTypeOK, Exists
<1>1. ASSUME NEW o \in Objects, NEW l \in Lambdas, scope_exit(o, l) PROVE Accounted'
  <2>1. Holders(l)' = {o} /\ called'[l] = 0 /\ l \notin released'
    BY <1>1 DEF scope_exit, Unused, Holders
  <2>2. ASSUME NEW k \in Lambdas, k # l
        PROVE  /\ Holders(k)' = Holders(k) /\ called' = called /\ released' = released
               /\ Unused(k) => Unused(k)'
    BY <1>1, <2>2 DEF scope_exit, Unused, Holders
  <2> QED
    BY <2>1, <2>2 DEF Accounted, Held, Called, Released
<1>2. ASSUME NEW o \in Objects, NEW other \in Objects, MoveConstruct(o, other) PROVE Accounted'
  <2> DEFINE l == m_lambda[other]
  <2>1. /\ l \in Lambdas /\ o # other /\ m_lambda[o] = NoLambda
        /\ called' = called /\ released' = released
        /\ m_lambda' = [m_lambda EXCEPT ![o] = l]
        /\ m_call' = [m_call EXCEPT ![o] = m_call[other], ![other] = FALSE]
    BY <1>2 DEF MoveConstruct
  <2>2. ASSUME NEW k \in Lambdas, k # l
        PROVE  Holders(k)' = Holders(k) /\ (Unused(k) => Unused(k)')
    BY <2>1, <2>2 DEF Unused, Holders
  <2>3. ~Unused(l)
    BY DEF Unused
  <2>4. CASE m_call[other]
    <3>1. Holders(l) = {other} /\ called[l] = 0 /\ l \notin released
      BY <2>1, <2>3, <2>4 DEF Accounted, Held, Called, Released, Holders
    <3>2. Holders(l)' = {o}
      BY <2>1, <2>4, <3>1 DEF Holders
    <3> QED
      BY <2>1, <2>2, <3>1, <3>2 DEF Accounted, Held, Called, Released
  <2>5. CASE ~m_call[other]
    <3>1. Holders(l)' = Holders(l)
      BY <2>1, <2>5 DEF Holders
    <3> QED
      BY <2>1, <2>2, <2>3, <3>1 DEF Accounted, Held, Called, Released
  <2> QED
    BY <2>4, <2>5
<1>3. ASSUME NEW o \in Objects, release(o) PROVE Accounted'
  <2>1. CASE ~m_call[o]
    <3>1. m_call' = m_call /\ released' = released /\ m_lambda' = m_lambda /\ called' = called
      BY <1>3, <2>1 DEF release
    <3> QED
      BY <3>1 DEF Accounted, Unused, Held, Called, Released, Holders
  <2>2. CASE m_call[o]
    <3> DEFINE l == m_lambda[o]
    <3>1. /\ l \in Lambdas /\ m_lambda' = m_lambda /\ called' = called
          /\ m_call' = [m_call EXCEPT ![o] = FALSE] /\ released' = released \cup {l}
      BY <1>3, <2>2 DEF release
    <3>2. Holders(l) = {o} /\ called[l] = 0
      BY <2>2, <3>1 DEF Accounted, Unused, Held, Called, Released, Holders
    <3>3. Holders(l)' = {}
      BY <3>1, <3>2 DEF Holders
    <3>4. ASSUME NEW k \in Lambdas, k # l
          PROVE  Holders(k)' = Holders(k) /\ (k \in released' <=> k \in released)
      BY <3>1, <3>4 DEF Holders
    <3> QED
      BY <3>1, <3>2, <3>3, <3>4 DEF Accounted, Unused, Held, Called, Released
  <2> QED
    BY <2>1, <2>2
<1>4. ASSUME NEW o \in Objects, reset(o) PROVE Accounted'
  <2>1. CASE m_call[o]
    BY <1>4, <2>1, CallAccounted DEF reset
  <2>2. CASE ~m_call[o]
    BY <1>4, <2>2 DEF reset, Accounted, Unused, Held, Called, Released, Holders
  <2> QED
    BY <2>1, <2>2
<1>5. ASSUME NEW o \in Objects, LambdaReturns(o) PROVE Accounted'
  <2>1. /\ ~m_call[o] /\ m_lambda[o] # NoLambda /\ m_call' = m_call
        /\ called' = called /\ released' = released
        /\ \A p \in Objects : p # o => m_lambda'[p] = m_lambda[p]
        /\ m_lambda'[o] \in {m_lambda[o], NoLambda}
    BY <1>5 DEF LambdaReturns, ExecutingOnce
  <2>2. ASSUME NEW k \in Lambdas
        PROVE  Holders(k)' = Holders(k) /\ (Unused(k) => Unused(k)')
    BY <2>1 DEF Holders, Unused
  <2> QED
    BY <2>1, <2>2 DEF Accounted, Held, Called, Released
<1>6. ASSUME NEW o \in Objects, Destroy(o) PROVE Accounted'
  <2>1. CASE m_call[o]
    BY <1>6, <2>1, CallAccounted DEF Destroy
  <2>2. CASE ~m_call[o]
    <3>1. /\ m_lambda' = [m_lambda EXCEPT ![o] = NoLambda] /\ m_call' = m_call
          /\ called' = called /\ released' = released
      BY <1>6, <2>2 DEF Destroy
    <3>2. ASSUME NEW k \in Lambdas
          PROVE  Holders(k)' = Holders(k) /\ (Unused(k) => Unused(k)')
      BY <2>2, <3>1 DEF Holders, Unused
    <3> QED
      BY <3>1, <3>2 DEF Accounted, Held, Called, Released
  <2> QED
    BY <2>1, <2>2
<1> QED
  BY <1>1, <1>2, <1>3, <1>4, <1>5, <1>6 DEF ScopeNext

\* Whatever is done to the objects, in whatever order and from within the
\* lambdas too, each lambda has one object that will call it, or was called
\* once, or was released and never called.
THEOREM EachCalledOnce == ScopeSpec => []CalledExactlyOnce
<1>1. ScopeInv /\ [ScopeNext]_scopeVars => ScopeInv'
  <2>1. CASE ScopeNext
    BY <2>1, ScopeTypeStep, ExecutingOnceStep, AccountedStep DEF ScopeInv
  <2>2. CASE UNCHANGED scopeVars
    BY <2>2 DEF ScopeInv, ScopeTypeOK, ExecutingOnce, Accounted, Unused, Held, Called, Released,
                Holders, Exists, scopeVars
  <2> QED
    BY <2>1, <2>2
<1>2. ScopeInv => CalledExactlyOnce
  <2> SUFFICES ASSUME ScopeInv, NEW l \in Lambdas, ~Unused(l)
               PROVE  Cardinality(Holders(l)) + called[l] + (IF l \in released THEN 1 ELSE 0) = 1
    BY DEF CalledExactlyOnce
  <2>1. CASE Held(l)
    <3>1. Cardinality(Holders(l)) = 1
      BY <2>1, FS_Singleton DEF Held
    <3> QED
      BY <2>1, <3>1 DEF Held
  <2>2. CASE Called(l) \/ Released(l)
    <3>1. Cardinality(Holders(l)) = 0
      BY <2>2, FS_EmptySet DEF Called, Released
    <3> QED
      BY <2>2, <3>1 DEF Called, Released
  <2> QED
    BY <2>1, <2>2 DEF ScopeInv, Accounted
<1> QED
  BY <1>1, <1>2, ScopeInvInit, PTL DEF ScopeSpec

-----------------------------------------------------------------------------
(* SIMPLE-TLV.                                                             *)

Blobs == [tag : {1, 2}, length : 0..255, high : 0..255, low : 0..255, size : Nat]

LongLength(blob) == blob.high * 256 + blob.low

LEMMA ShortApart ==
    ASSUME NEW size \in Nat, NEW length \in 0..255, NEW n \in Int
    PROVE  n >= 0 /\ n < 255 /\ size = 2 + n /\ length = n
              <=> length # 255 /\ n = size - 2 /\ n = length
OBVIOUS

\* The size of the data and its length bytes decide which encoding it is, if
\* it is one at all.
LEMMA EncodingsApart ==
    ASSUME NEW blob \in Blobs, NEW n \in Int
    PROVE  /\ n >= 0 /\ ShortForm(blob, n) <=>
                  blob.length # 255 /\ n = blob.size - 2 /\ n = blob.length
           /\ n >= 0 /\ LongForm(blob, n) <=>
                  /\ blob.size >= 4 /\ blob.length = 255
                  /\ n = blob.size - 4 /\ n = LongLength(blob)
<1>1. /\ blob.length \in 0..255 /\ blob.high \in 0..255 /\ blob.low \in 0..255 /\ blob.size \in Nat
  BY DEF Blobs
<1>2. n >= 0 /\ ShortForm(blob, n) <=>
          blob.length # 255 /\ n = blob.size - 2 /\ n = blob.length
  BY <1>1, ShortApart DEF ShortForm
<1>3. n >= 0 /\ LongForm(blob, n) <=>
          /\ blob.size >= 4 /\ blob.length = 255
          /\ n = blob.size - 4 /\ n = LongLength(blob)
  <2> DEFINE size == blob.size
             h == blob.high
             w == blob.low
  <2>1. size \in Nat /\ h \in 0..255 /\ w \in 0..255
    BY <1>1
  <2> HIDE DEF size, h, w
  <2>2. ASSUME size >= 4, n = size - 4, n = h * 256 + w
        PROVE  n >= 0 /\ n < 65536 /\ size = 4 + n /\ h = n \div 256 /\ w = n % 256
    <3>1. n >= 0 /\ n < 65536 /\ size = 4 + n
      BY <2>1, <2>2
    <3>2. h = n \div 256
      BY <2>1, <2>2
    <3>3. w = n % 256
      BY <2>1, <2>2
    <3> QED
      BY <3>1, <3>2, <3>3
  <2>3. ASSUME n >= 0, size = 4 + n, h = n \div 256, w = n % 256
        PROVE  size >= 4 /\ n = size - 4 /\ n = h * 256 + w
    <3>1. n \in Nat /\ size >= 4 /\ n = size - 4
      BY <2>1, <2>3
    <3>2. n = h * 256 + w
      BY <2>1, <2>3, <3>1
    <3> QED
      BY <3>1, <3>2
  <2> QED
    BY <2>2, <2>3 DEF LongForm, LongLength, size, h, w
<1> QED
  BY <1>2, <1>3

\* What Parse computes, case by case: the two bytes of a long length fit into
\* the parser's 16 bits.
LEMMA ParseCases ==
    ASSUME NEW blob \in Blobs
    PROVE  /\ blob.size < 2 => Parse(blob) = Failed
           /\ blob.size >= 2 /\ blob.length # 255 =>
                  Parse(blob) = IF blob.size = 2 + blob.length
                                THEN Tlv(blob.tag, blob.size - blob.length + 1, blob.size)
                                ELSE Failed
           /\ blob.size \in 2..3 /\ blob.length = 255 => Parse(blob) = Failed
           /\ blob.size >= 4 /\ blob.length = 255 =>
                  Parse(blob) = IF blob.size = 4 + LongLength(blob)
                                THEN Tlv(blob.tag, blob.size - LongLength(blob) + 1, blob.size)
                                ELSE Failed
<1>1. /\ blob.length \in 0..255 /\ blob.high \in 0..255 /\ blob.low \in 0..255 /\ blob.size \in Nat
  BY DEF Blobs
<1>2. (blob.high * 256 + blob.low) % 65536 = LongLength(blob)
  <2> DEFINE h == blob.high
             w == blob.low
  <2>1. h \in 0..255 /\ w \in 0..255
    BY <1>1
  <2> HIDE DEF h, w
  <2>2. (h * 256 + w) % 65536 = h * 256 + w
    BY <2>1
  <2> QED
    BY <2>2 DEF LongLength, h, w
<1> USE DEF Parse, OneByteLengthMinimumSize, ThreeByteLengthMinimumSize, ThreeByteLengthIndicatorValue
<1>3. blob.size < 2 => Parse(blob) = Failed
  BY <1>1
<1>4. ASSUME blob.size >= 2, blob.length # 255
      PROVE  Parse(blob) = IF blob.size = 2 + blob.length
                           THEN Tlv(blob.tag, blob.size - blob.length + 1, blob.size)
                           ELSE Failed
  BY <1>1, <1>4 DEF ParseValue
<1>5. ASSUME blob.size \in 2..3, blob.length = 255 PROVE Parse(blob) = Failed
  BY <1>1, <1>5
<1>6. ASSUME blob.size >= 4, blob.length = 255
      PROVE  Parse(blob) = IF blob.size = 4 + LongLength(blob)
                           THEN Tlv(blob.tag, blob.size - LongLength(blob) + 1, blob.size)
                           ELSE Failed
  <2>1. Parse(blob) = ParseValue(blob, 4, (blob.high * 256 + blob.low) % 65536)
    BY <1>1, <1>6
  <2> QED
    BY <1>2, <2>1 DEF ParseValue
<1> QED
  BY <1>3, <1>4, <1>5, <1>6

LEMMA ParseCorrect ==
    ASSUME NEW blob \in Blobs
    PROVE  LET Encodes(n) == n >= 0 /\ (ShortForm(blob, n) \/ LongForm(blob, n))
               n == CHOOSE k \in {blob.size - 2, blob.size - 4} : Encodes(k)
           IN IF \E k \in {blob.size - 2, blob.size - 4} : Encodes(k)
              THEN Parse(blob) = Tlv(blob.tag, blob.size - n + 1, blob.size)
              ELSE Parse(blob) = Failed
<1> DEFINE Encodes(n) == n >= 0 /\ (ShortForm(blob, n) \/ LongForm(blob, n))
<1>1. /\ blob.length \in 0..255 /\ blob.high \in 0..255 /\ blob.low \in 0..255 /\ blob.size \in Nat
      /\ LongLength(blob) \in Nat
  <2>1. /\ blob.length \in 0..255 /\ blob.high \in 0..255 /\ blob.low \in 0..255 /\ blob.size \in Nat
    BY DEF Blobs
  <2>2. ASSUME NEW h \in 0..255, NEW w \in 0..255 PROVE h * 256 + w \in Nat
    OBVIOUS
  <2>3. LongLength(blob) \in Nat
    BY <2>1, <2>2, Zenon DEF LongLength
  <2> QED
    BY <2>1, <2>3
<1>2. \A n \in Int :
        Encodes(n) <=> \/ blob.length # 255 /\ n = blob.size - 2 /\ n = blob.length
                       \/ blob.size >= 4 /\ blob.length = 255 /\ n = blob.size - 4 /\ n = LongLength(blob)
  BY EncodingsApart
<1> HIDE DEF Encodes
<1>3. ASSUME NEW k \in {blob.size - 2, blob.size - 4}, Encodes(k)
      PROVE  /\ Parse(blob) = Tlv(blob.tag, blob.size - k + 1, blob.size)
             /\ \A j \in {blob.size - 2, blob.size - 4} : Encodes(j) => j = k
  <2>1. k \in Int
    BY <1>1
  <2>2. CASE blob.length # 255 /\ k = blob.size - 2 /\ k = blob.length
    BY <1>1, <1>2, <2>2, ParseCases
  <2>3. CASE blob.size >= 4 /\ blob.length = 255 /\ k = blob.size - 4 /\ k = LongLength(blob)
    BY <1>1, <1>2, <2>3, ParseCases
  <2> QED
    BY <1>2, <1>3, <2>1, <2>2, <2>3
<1>4. ASSUME \A k \in {blob.size - 2, blob.size - 4} : ~Encodes(k)
      PROVE  Parse(blob) = Failed
  <2>1. ~(blob.length # 255 /\ blob.size = 2 + blob.length)
    BY <1>1, <1>2, <1>4
  <2>2. ~(blob.size >= 4 /\ blob.length = 255 /\ blob.size = 4 + LongLength(blob))
    BY <1>1, <1>2, <1>4
  <2> QED
    BY <1>1, <2>1, <2>2, ParseCases
<1>5. CASE \E k \in {blob.size - 2, blob.size - 4} : Encodes(k)
  <2> DEFINE n == CHOOSE k \in {blob.size - 2, blob.size - 4} : Encodes(k)
  <2>1. n \in {blob.size - 2, blob.size - 4} /\ Encodes(n)
    BY <1>5
  <2> HIDE DEF n
  <2>2. Parse(blob) = Tlv(blob.tag, blob.size - n + 1, blob.size)
    BY <1>3, <2>1
  <2> QED
    BY <1>5, <2>2 DEF Encodes, n
<1>6. CASE ~ \E k \in {blob.size - 2, blob.size - 4} : Encodes(k)
  BY <1>4, <1>6 DEF Encodes
<1> QED
  BY <1>5, <1>6

\* For data of every size and every header, Parse succeeds on exactly the
\* encodings and returns the tag and the whole value that was encoded.
THEOREM ParseInvertsEncodings == TlvSpec => []ParsesEncodingsOnly
<1> DEFINE Inv == data \in Blobs /\ (tlvOutput # NullPtr => tlvOutput = Parse(data))
<1>1. TlvInit => Inv
  <2> SUFFICES ASSUME TlvInit PROVE Inv
    OBVIOUS
  <2>1. PICK tag \in {1, 2}, length \in Bytes, high \in Bytes, low \in Bytes, size \in Sizes :
            data = [tag |-> tag, length |-> length, high |-> high, low |-> low, size |-> size]
    BY DEF TlvInit
  <2>2. /\ length \in 0..255 /\ high \in 0..255 /\ low \in 0..255 /\ size \in Nat
    BY TlvAssumption
  <2>3. data \in Blobs
    BY <2>1, <2>2 DEF Blobs
  <2> QED
    BY <2>3 DEF TlvInit
<1>2. Inv /\ [ParseData]_tlvVars => Inv'
  BY DEF ParseData, tlvVars
<1>3. Inv => ParsesEncodingsOnly
  BY ParseCorrect DEF ParsesEncodingsOnly
<1> QED
  BY <1>1, <1>2, <1>3, PTL DEF TlvSpec

-----------------------------------------------------------------------------
(* The command APDU.                                                       *)

Data == {"x", "y"}

\* The buffer: four bytes of header, the data, and as many zeros.
LEMMA PayloadLayout ==
    ASSUME NEW bytes \in Seq(Data)
    PROVE  /\ Payload(bytes) \in Seq({"cla", "ins", "p1", "p2", "x", "y", "zero"})
           /\ Len(Payload(bytes)) = 4 + 2 * Len(bytes)
           /\ \A i \in 1..4 : Payload(bytes)[i] = Header[i]
           /\ \A i \in 1..Len(bytes) : Payload(bytes)[4 + i] = bytes[i]
<1> DEFINE Byte == {"cla", "ins", "p1", "p2", "x", "y", "zero"}
<1>1. bytes \in Seq(Byte) /\ Len(bytes) \in Nat
  BY SeqMonotonic, LenProperties DEF Data
<1>2. Header \in Seq(Byte) /\ Len(Header) = 4
  BY DEF Header
<1> DEFINE zeros == Zeros(Len(bytes))
<1>3. zeros \in Seq(Byte) /\ Len(zeros) = Len(bytes)
  BY <1>1 DEF Zeros
<1> DEFINE s == Header \o bytes
<1>4. /\ s \in Seq(Byte)
      /\ Len(s) = 4 + Len(bytes)
      /\ \A i \in 1..(4 + Len(bytes)) : s[i] = IF i <= 4 THEN Header[i] ELSE bytes[i - 4]
  <2>1. /\ s \in Seq(Byte)
        /\ Len(s) = Len(Header) + Len(bytes)
        /\ \A i \in 1..(Len(Header) + Len(bytes)) :
               s[i] = IF i <= Len(Header) THEN Header[i] ELSE bytes[i - Len(Header)]
    <3>1. Header \in Seq(Byte) /\ bytes \in Seq(Byte)
      BY <1>1, <1>2
    <3> QED
      BY <3>1, ConcatProperties
  <2> QED
    BY <1>2, <2>1
<1>5. /\ Payload(bytes) \in Seq(Byte)
      /\ Len(Payload(bytes)) = 4 + Len(bytes) + Len(bytes)
      /\ \A i \in 1..(4 + Len(bytes)) : Payload(bytes)[i] = s[i]
  <2>1. Payload(bytes) = s \o zeros /\ s \in Seq(Byte) /\ zeros \in Seq(Byte)
    BY <1>3, <1>4 DEF Payload
  <2> HIDE DEF s, zeros, Byte
  <2>2. /\ Payload(bytes) \in Seq(Byte)
        /\ Len(Payload(bytes)) = Len(s) + Len(zeros)
        /\ \A i \in 1..(Len(s) + Len(zeros)) :
               Payload(bytes)[i] = IF i <= Len(s) THEN s[i] ELSE zeros[i - Len(s)]
    BY <2>1, ConcatProperties
  <2> QED
    BY <1>1, <1>3, <1>4, <2>2
<1> HIDE DEF s
<1> DEFINE p == Payload(bytes)
<1>6. ASSUME NEW i \in 1..4 PROVE p[i] = Header[i]
  <2>1. i \in 1..(4 + Len(bytes)) /\ i <= 4
    BY <1>1
  <2> HIDE DEF p
  <2>2. p[i] = s[i]
    BY <1>5, <2>1 DEF p
  <2>3. s[i] = Header[i]
    BY <1>4, <2>1
  <2> QED
    BY <2>2, <2>3
<1>7. ASSUME NEW i \in 1..Len(bytes) PROVE Payload(bytes)[4 + i] = bytes[i]
  <2>1. 4 + i \in 1..(4 + Len(bytes)) /\ ~(4 + i <= 4) /\ (4 + i) - 4 = i
    BY <1>1
  <2> QED
    BY <1>4, <1>5, <2>1
<1> QED
  BY <1>1, <1>5, <1>6, <1>7 DEF Byte

\* The data view is right for data of every size; the payload view runs one byte
\* over the end of the buffer for data of every size.
THEOREM ViewsOfCommand == ApduSpec => []ApduViews
<1> DEFINE Inv == argument \in Seq(Data)
                    /\ (command = NoCommand \/ command = ApduCommand(argument))
<1>1. ApduInit => Inv
  BY SeqDef DEF ApduInit, Data
<1>2. Inv /\ [Construct]_apduVars => Inv'
  BY DEF Construct, apduVars
<1>3. Inv => ApduViews
  <2> SUFFICES ASSUME argument \in Seq(Data), command = ApduCommand(argument)
               PROVE  ApduViews
    BY DEF ApduViews
  <2> DEFINE payload == Payload(argument)
  <2>1. /\ command.m_payload = payload
        /\ command.m_dataView = [first |-> 5, size |-> Len(argument)]
        /\ command.m_payloadView = [first |-> 2, size |-> Len(payload)]
    BY DEF ApduCommand, DataView, PayloadView
  <2>2. /\ Len(argument) \in Nat /\ Len(payload) = 4 + 2 * Len(argument)
        /\ payload \in Seq({"cla", "ins", "p1", "p2", "x", "y", "zero"})
        /\ \A i \in 1..4 : payload[i] = Header[i]
        /\ \A i \in 1..Len(argument) : payload[4 + i] = argument[i]
    BY LenProperties, PayloadLayout
  <2> HIDE DEF payload
  <2>3. SubSeq(payload, 1, 4) = Header
    <3> DEFINE Byte == {"cla", "ins", "p1", "p2", "x", "y", "zero"}
    <3>1. \A i \in 1..4 : payload[i] \in Byte
      BY <2>2, ElementOfSeq
    <3>2. /\ SubSeq(payload, 1, 4) \in Seq(Byte)
          /\ Len(SubSeq(payload, 1, 4)) = 4
          /\ \A i \in 1..4 : SubSeq(payload, 1, 4)[i] = payload[i]
      BY <3>1, SubSeqProperties
    <3>3. Header \in Seq(Byte) /\ Len(Header) = 4
      BY DEF Header
    <3> QED
      BY <2>2, <3>2, <3>3, SeqEqual
  <2>4. Shown(command.m_dataView) = argument
    <3>1. Shown(command.m_dataView) = [i \in 1..Len(argument) |-> payload[5 + i - 1]]
      BY <2>1 DEF Shown
    <3>2. argument = [i \in 1..Len(argument) |-> argument[i]]
      BY LenProperties
    <3>3. \A i \in 1..Len(argument) : payload[5 + i - 1] = argument[i]
      BY <2>2
    <3> QED
      BY <3>1, <3>2, <3>3
  <2> QED
    BY <2>1, <2>2, <2>3, <2>4 DEF ApduViews, LastOf
<1> QED
  BY <1>1, <1>2, <1>3, PTL DEF ApduSpec
=============================================================================
