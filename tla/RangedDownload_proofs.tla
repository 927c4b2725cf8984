------------------------- MODULE RangedDownload_proofs -------------------------
(***************************************************************************)
(* Theorems about RangedDownload for images and requests of any size, and  *)
(* an int of any width that the image's size fits in.                      *)
(***************************************************************************)
EXTENDS RangedDownload, SequenceTheorems, TLAPS

(* The constants, as numbers. *)
LEMMA ConstantTypes ==
    /\ MaxSize \in Nat /\ IntMax \in Nat /\ MaxSize <= IntMax
    /\ DefaultRequest \in Nat /\ DefaultRequest > 0 /\ DefaultRequest <= IntMax
  BY MaxSizeAssumption, IntMaxAssumption, DefaultRequestAssumption

-----------------------------------------------------------------------------
(* The server's arithmetic, one kind of header at a time. *)

LEMMA SuffixAnswer ==
    ASSUME NEW header \in Headers, NEW n \in Nat, header.form = "suffix"
    PROVE  RightAnswer(header, n)
<1>1. header.last \in Nat
  BY DEF Headers
<1>2. Meaningful(header)
  BY DEF Meaningful
<1>3. Selected(header, n) = {p \in 0 .. n - 1 : p >= n - header.last}
  BY DEF Selected
<1>4. CASE header.last = 0 \/ n = 0
  <2>1. Selected(header, n) = {}
    BY <1>1, <1>3, <1>4
  <2>2. ParseRange(header, n) = NotSatisfiable
    BY <1>4 DEF ParseRange
  <2>. QED
    BY <1>2, <2>1, <2>2 DEF RightAnswer
<1>5. CASE ~(header.last = 0 \/ n = 0)
  <2>. DEFINE first == IF header.last < n THEN n - header.last ELSE 0
  <2>1. ParseRange(header, n) = Answer(206, first, n - 1)
    BY <1>5 DEF ParseRange
  <2>2. first .. n - 1 = Selected(header, n) /\ n - 1 \in Selected(header, n)
    BY <1>1, <1>3, <1>5
  <2>. QED
    BY <1>2, <2>1, <2>2 DEF RightAnswer, Answer
<1>. QED
  BY <1>4, <1>5

LEMMA FirstLastAnswer ==
    ASSUME NEW header \in Headers, NEW n \in Nat, header.form \in {"closed", "open"}
    PROVE  RightAnswer(header, n)
<1>1. header.first \in Nat /\ header.last \in Nat
  BY DEF Headers
<1>2. Selected(header, n) = {p \in 0 .. n - 1 :
          p >= header.first /\ (header.form = "closed" => p <= header.last)}
  BY DEF Selected
<1>3. CASE header.form = "closed" /\ header.first > header.last
  <2>1. ~Meaningful(header)
    BY <1>1, <1>3 DEF Meaningful
  <2>2. ParseRange(header, n) = WholeFile(n)
    BY <1>3 DEF ParseRange
  <2>. QED
    BY <2>1, <2>2 DEF RightAnswer
<1>4. CASE ~(header.form = "closed" /\ header.first > header.last)
  <2>1. Meaningful(header)
    BY <1>1, <1>4 DEF Meaningful
  <2>2. CASE header.first >= n
    <3>1. Selected(header, n) = {}
      BY <1>1, <1>2, <2>2
    <3>2. ParseRange(header, n) = NotSatisfiable
      BY <1>4, <2>2 DEF ParseRange
    <3>. QED
      BY <2>1, <3>1, <3>2 DEF RightAnswer
  <2>3. CASE header.first < n
    <3>1. ParseRange(header, n) = Answer(206, header.first, LastByte(header, n))
      BY <1>1, <1>4, <2>3 DEF ParseRange
    <3>2. header.first \in Selected(header, n)
      BY <1>1, <1>2, <1>4, <2>3
    <3>3. header.first .. LastByte(header, n) = Selected(header, n)
      BY <1>1, <1>2, <1>4, <2>3 DEF LastByte
    <3>. QED
      BY <2>1, <3>1, <3>2, <3>3 DEF RightAnswer, Answer
  <2>. QED
    BY <1>1, <2>2, <2>3
<1>. QED
  BY <1>3, <1>4

LEMMA ParseRangeRight ==
    ASSUME NEW header \in Headers, header.form # "none", NEW n \in Nat
    PROVE  RightAnswer(header, n)
<1>1. CASE header.form \in {"empty", "malformed"}
  BY <1>1 DEF RightAnswer, ParseRange, Meaningful
<1>. QED
  BY <1>1, SuffixAnswer, FirstLastAnswer DEF Headers, Forms

-----------------------------------------------------------------------------
(* The download. *)

(* The image so far is in the partition, each byte at its place. *)
Prefix == \A i \in 1 .. Got : written[i] = i - 1

(* Another range is asked for only once a server that honours them sent one,
   and of a size the int holds: then the next one starts where that ended. *)
Continues == Got > 0 => partial_download /\ honour_range /\ RequestSize > 0

(* What was answered follows what is there, up to the end of the image or of a
   range that is not the last, which is as long as was configured. *)
Fits(r) ==
    /\ r.first = Got
    /\ r.last \in r.first - 1 .. size - 1
    /\ r.last # size - 1 => partial_download /\ honour_range /\ RequestSize > 0
                            /\ r.last = r.first + RequestSize - 1

IInv ==
    /\ TypeOK
    /\ Prefix
    /\ pc = "idle" => written = <<>>
    /\ pc \in {"asking", "reading"} => Got <= size /\ Continues
    /\ pc = "asking" => Got = 0 \/ Got < size
    /\ pc = "reading" => response.status = 416 \/ Fits(response)
    /\ pc = "received" => Got = size

LEMMA RequestSizeType ==
    ASSUME TypeOK
    PROVE  RequestSize \in Int /\ RequestSize # 0
  BY ConstantTypes DEF TypeOK, SizeT, RequestSize

(* A body is the bytes between its first and its last. *)
LEMMA BodyLemma ==
    ASSUME NEW r \in Responses, NEW n \in 0 .. MaxSize,
           r.first \in Nat, r.last \in r.first - 1 .. n - 1
    PROVE  /\ Body(r) \in Seq(0 .. MaxSize - 1)
           /\ Len(Body(r)) = r.last - r.first + 1
           /\ \A i \in 1 .. Len(Body(r)) : Body(r)[i] = r.first + i - 1
<1>. DEFINE k == r.last - r.first + 1
<1>1. k \in Nat /\ \A i \in 1 .. k : r.first + i - 1 \in 0 .. MaxSize - 1
  BY ConstantTypes
<1>2. Body(r) = [i \in 1 .. k |-> r.first + i - 1]
  BY DEF Body
<1>. HIDE DEF k
<1>3. Body(r) \in [1 .. k -> 0 .. MaxSize - 1]
  BY <1>1, <1>2
<1>4. Body(r) \in Seq(0 .. MaxSize - 1)
  <2>1. \A S : Seq(S) = UNION {[1 .. m -> S] : m \in Nat}
    OBVIOUS
  <2>. QED
    BY <1>1, <1>3, <2>1
<1>5. Len(Body(r)) = k
  <2>1. 1 .. Len(Body(r)) = 1 .. k /\ Len(Body(r)) \in Nat
    BY <1>3, <1>4, LenProperties
  <2>. QED
    BY <1>1, <2>1
<1>. QED
  BY <1>2, <1>4, <1>5 DEF k

LEMMA AskStep ==
    ASSUME IInv, Ask
    PROVE  /\ request' \in Headers
           /\ response' \in Responses
           /\ response'.status = 416 \/ Fits(response')
<1>. DEFINE last == Got + RequestSize - 1
<1>1. /\ RequestSize \in Int /\ RequestSize # 0 /\ Got \in Nat /\ size \in Nat
      /\ Got <= size /\ (Got = 0 \/ Got < size)
      /\ Got > 0 => partial_download /\ honour_range /\ RequestSize > 0
  BY RequestSizeType, ConstantTypes DEF IInv, TypeOK, Ask, Got, Continues
<1>2. request' = NextHeader /\ response' = SendHead(NextHeader, size)
  BY DEF Ask
<1>3. CASE NextHeader \in {NoRange, Header("malformed", 0, 0)} /\ Got = 0
  <2>1. SendHead(NextHeader, size) = WholeFile(size)
    BY <1>3 DEF SendHead, ParseRange, NoRange, Header
  <2>2. NextHeader \in Headers
    BY <1>3 DEF NoRange, Header, Headers, Forms
  <2>. QED
    BY <1>1, <1>2, <1>3, <2>1, <2>2 DEF WholeFile, Answer, Responses, Fits
<1>4. CASE /\ NextHeader = Header("closed", Got, last) /\ partial_download
           /\ size - Got > RequestSize /\ last >= 0
  <2>1. RequestSize > 0 /\ last \in Got .. size - 1
    BY <1>1, <1>4
  <2>2. NextHeader \in Headers
    BY <1>1, <1>4, <2>1 DEF Header, Headers, Forms
  <2>3. CASE honour_range
    <3>1. SendHead(NextHeader, size) = Answer(206, Got, last)
      BY <1>1, <1>4, <2>1, <2>3 DEF SendHead, ParseRange, LastByte, Header
    <3>. QED
      BY <1>1, <1>2, <1>4, <2>1, <2>2, <2>3, <3>1 DEF Answer, Responses, Fits
  <2>4. CASE ~honour_range
    <3>1. SendHead(NextHeader, size) = WholeFile(size) /\ Got = 0
      BY <1>1, <2>4 DEF SendHead
    <3>. QED
      BY <1>1, <1>2, <2>2, <3>1 DEF WholeFile, Answer, Responses, Fits
  <2>. QED
    BY <2>3, <2>4
<1>5. CASE NextHeader = Header("open", Got, 0) /\ Got > 0
  <2>1. NextHeader \in Headers
    BY <1>1, <1>5 DEF Header, Headers, Forms
  <2>2. SendHead(NextHeader, size) = Answer(206, Got, size - 1)
    BY <1>1, <1>5 DEF SendHead, ParseRange, LastByte, Header
  <2>. QED
    BY <1>1, <1>2, <2>1, <2>2 DEF Answer, Responses, Fits
<1>. QED
  BY <1>1, <1>3, <1>4, <1>5 DEF NextHeader

LEMMA ReadStep ==
    ASSUME IInv, Read
    PROVE  IInv'
<1>1. /\ pc = "reading" /\ response.status # 416 /\ Fits(response) /\ response \in Responses
      /\ size \in 0 .. MaxSize /\ MaxSize \in Nat /\ Got \in Nat /\ Got <= size
      /\ written \in Seq(0 .. MaxSize - 1)
      /\ written' = written \o Body(response)
      /\ UNCHANGED <<serverVars, configVars, request, response>>
  BY ConstantTypes DEF IInv, TypeOK, Read, Got
<1>0. /\ response.last \in Int /\ response.last >= Got - 1 /\ response.last <= size - 1
      /\ response.last # size - 1 => partial_download /\ honour_range /\ RequestSize > 0
                                    /\ response.last >= Got
  BY <1>1, RequestSizeType DEF Fits, Responses, IInv
<1>2. /\ Body(response) \in Seq(0 .. MaxSize - 1)
      /\ Len(Body(response)) = response.last - Got + 1
      /\ \A i \in 1 .. Len(Body(response)) : Body(response)[i] = Got + i - 1
  BY <1>1, BodyLemma DEF Fits
<1>3. /\ written' \in Seq(0 .. MaxSize - 1)
      /\ Got' = response.last + 1
      /\ \A i \in 1 .. Got' : written'[i] = IF i <= Got THEN written[i]
                                            ELSE Body(response)[i - Got]
  <2>. DEFINE b == Body(response)
  <2>. HIDE DEF b
  <2>1. /\ written \o b \in Seq(0 .. MaxSize - 1)
        /\ Len(written \o b) = Got + Len(b)
        /\ \A i \in 1 .. Got + Len(b) :
              (written \o b)[i] = IF i <= Got THEN written[i] ELSE b[i - Got]
    BY <1>1, <1>2, ConcatProperties DEF Got, b
  <2>2. Got' = Got + Len(b) /\ written' = written \o b
    BY <1>1, <2>1 DEF Got, b
  <2>3. Got + Len(b) = response.last + 1
    BY <1>0, <1>1, <1>2 DEF b
  <2>. QED
    BY <2>1, <2>2, <2>3 DEF b
<1>4. Prefix'
  <2>. SUFFICES ASSUME NEW i \in 1 .. Got' PROVE written'[i] = i - 1
    BY DEF Prefix
  <2>1. i \in Int /\ i >= 1 /\ i <= response.last + 1 /\ Got \in Int
    BY <1>0, <1>1, <1>3
  <2>2. written'[i] = IF i <= Got THEN written[i] ELSE Body(response)[i - Got]
    BY <1>3
  <2>3. ASSUME i <= Got PROVE written[i] = i - 1
    BY <2>1, <2>3 DEF IInv, Prefix
  <2>4. ASSUME i > Got PROVE Body(response)[i - Got] = i - 1
    <3>1. i - Got \in 1 .. Len(Body(response)) /\ Got + (i - Got) - 1 = i - 1
      BY <1>0, <1>2, <2>1, <2>4
    <3>. QED
      BY <1>2, <3>1
  <2>. QED
    BY <2>1, <2>2, <2>3, <2>4
<1>5. RequestSize' = RequestSize
  BY <1>1 DEF configVars, RequestSize
<1>6. /\ pc' = IF partial_download /\ Got' < size THEN "asking" ELSE "received"
      /\ Got' \in Nat /\ Got' <= size
      /\ Got' # size => partial_download /\ honour_range /\ RequestSize > 0 /\ Got' > 0
  BY <1>0, <1>1, <1>3 DEF Read, Got
<1>7. TypeOK'
  BY <1>1, <1>3, <1>6 DEF IInv, TypeOK, serverVars, configVars
<1>8. UNCHANGED <<honour_range, size, partial_download>>
  BY <1>1 DEF serverVars, configVars
<1>. QED
  BY <1>1, <1>4, <1>5, <1>6, <1>7, <1>8 DEF IInv, Continues

LEMMA InitIInv ==
    ASSUME Init
    PROVE  IInv
<1>1. /\ written = <<>> /\ pc = "idle"
      /\ NoRange \in Headers /\ NotSatisfiable \in Responses /\ 0 \in SizeT
  BY ConstantTypes DEF Init, SizeT, NoRange, Header, Headers, Forms, NotSatisfiable,
                       Answer, Responses
<1>2. TypeOK
  <2>1. written \in Seq(0 .. MaxSize - 1)
    BY <1>1, EmptySeq
  <2>. QED
    BY <1>1, <2>1 DEF Init, TypeOK
<1>. QED
  BY <1>1, <1>2 DEF IInv, Prefix, Got

LEMMA NextIInv ==
    ASSUME IInv, [Next]_vars
    PROVE  IInv'
<1>1. CASE RunUpdate
  <2>1. written = <<>>
    BY <1>1 DEF RunUpdate, IInv
  <2>. QED
    BY <1>1, <2>1 DEF RunUpdate, IInv, TypeOK, Prefix, Got, Continues
<1>2. CASE Ask
  <2>1. /\ request' \in Headers /\ response' \in Responses
        /\ response'.status = 416 \/ Fits(response')
    BY <1>2, AskStep
  <2>2. /\ pc = "asking" /\ pc' = "reading" /\ UNCHANGED <<serverVars, configVars, written>>
    BY <1>2 DEF Ask
  <2>3. TypeOK'
    BY <2>1, <2>2 DEF IInv, TypeOK, serverVars, configVars
  <2>. QED
    BY <2>1, <2>2, <2>3 DEF IInv, Prefix, Got, Continues, Fits, RequestSize, serverVars, configVars
<1>3. CASE Read
  BY <1>3, ReadStep
<1>4. CASE EndUpdate
  BY <1>4 DEF EndUpdate, IInv, TypeOK, Prefix, Got, NoRange, Header, Headers, Forms,
              NotSatisfiable, Answer, Responses, serverVars, configVars
<1>5. CASE UNCHANGED vars
  BY <1>5 DEF vars, serverVars, configVars, IInv, TypeOK, Prefix, Got, Continues, Fits, RequestSize
<1>. QED
  BY <1>1, <1>2, <1>3, <1>4, <1>5 DEF Next

LEMMA IInvAlways == Spec => []IInv
<1>1. Init => IInv
  BY InitIInv
<1>2. IInv /\ [Next]_vars => IInv'
  BY NextIInv
<1>. QED
  BY <1>1, <1>2, PTL DEF Spec

-----------------------------------------------------------------------------
(* The theorems. *)

(* Every variable has its type; nothing past the end of an image is written. *)
THEOREM TypeCorrect == Spec => []TypeOK
<1>1. IInv => TypeOK
  BY DEF IInv
<1>. QED
  BY <1>1, IInvAlways, PTL

(* parse_range() makes of any header the bytes it selects of any file. *)
THEOREM RangesExact == Spec => []RangeExact
<1>1. ASSUME TypeOK PROVE RangeExact
  <2>. SUFFICES ASSUME NEW header \in [form : Forms \ {"none"},
                                       first : 0 .. MaxSize + 1, last : 0 .. MaxSize + 1]
                PROVE  RightAnswer(header, size)
    BY DEF RangeExact
  <2>1. header \in Headers /\ header.form # "none" /\ size \in Nat
    BY <1>1, ConstantTypes DEF Headers, TypeOK
  <2>. QED
    BY <2>1, ParseRangeRight
<1>. QED
  BY <1>1, TypeCorrect, PTL

(* Whatever the request size, the width of an int, the server's mode and the
   image, what a download that ends well has written is the image. *)
THEOREM Reassembled == Spec => []ImageReassembled
<1>1. ASSUME IInv PROVE ImageReassembled
  <2>. SUFFICES ASSUME pc = "received"
                PROVE  written = [i \in 1 .. size |-> i - 1]
    BY DEF ImageReassembled
  <2>1. /\ written \in Seq(0 .. MaxSize - 1) /\ Len(written) = size /\ size \in Nat
        /\ \A i \in 1 .. size : written[i] = i - 1
    BY <1>1, ConstantTypes DEF IInv, TypeOK, Prefix, Got
  <2>2. written \in [1 .. size -> 0 .. MaxSize - 1]
    BY <2>1, LenProperties
  <2>. QED
    BY <2>1, <2>2
<1>. QED
  BY <1>1, IInvAlways, PTL

-----------------------------------------------------------------------------
(* The way to the end of the image. *)

(* ota-api.h:113-118: whatever max_http_request_size is, no range is asked for
   in vain: each one that is not the last brings exactly the bytes configured,
   so that a download is over after size / RequestSize + 1 requests, and never
   comes round to the same range again. *)
EveryRangeAdvances ==
    [][pc = "reading" /\ pc' = "asking" =>
         /\ RequestSize > 0
         /\ Len(written') = Len(written) + RequestSize
         /\ Len(written') < size]_vars

(* A range that does not end the download is a whole one. *)
THEOREM RangesAdvance == Spec => EveryRangeAdvances
<1>1. ASSUME IInv, [Next]_vars, pc = "reading", pc' = "asking"
      PROVE  /\ RequestSize > 0
             /\ Len(written') = Len(written) + RequestSize
             /\ Len(written') < size
  <2>1. /\ Read /\ written' = written \o Body(response) /\ Len(written') < size
        /\ response \in Responses /\ Fits(response)
    BY <1>1 DEF Next, vars, RunUpdate, Ask, Read, EndUpdate, IInv, TypeOK
  <2>2. /\ size \in 0 .. MaxSize /\ MaxSize \in Nat /\ Got \in Nat /\ RequestSize \in Int
        /\ written \in Seq(0 .. MaxSize - 1) /\ response.last \in Int
    BY <1>1, <2>1, ConstantTypes, RequestSizeType DEF IInv, TypeOK, Got, Responses
  <2>3. /\ Body(response) \in Seq(0 .. MaxSize - 1)
        /\ Len(Body(response)) = response.last - Got + 1
    BY <2>1, <2>2, BodyLemma DEF Fits
  <2>4. Len(written') = Len(written) + Len(Body(response))
    <3>. DEFINE b == Body(response)
    <3>. HIDE DEF b
    <3>1. Len(written \o b) = Len(written) + Len(b)
      BY <2>2, <2>3, ConcatProperties DEF b
    <3>. QED
      BY <2>1, <3>1 DEF b
  <2>5. Len(written') = response.last + 1 /\ response.last # size - 1
    BY <2>1, <2>2, <2>3, <2>4 DEF Got
  <2>6. RequestSize > 0 /\ response.last = Got + RequestSize - 1
    BY <2>1, <2>5 DEF Fits
  <2>. QED
    BY <2>1, <2>2, <2>5, <2>6 DEF Got
<1>2. IInv /\ [Next]_vars =>
        [pc = "reading" /\ pc' = "asking" =>
           /\ RequestSize > 0
           /\ Len(written') = Len(written) + RequestSize
           /\ Len(written') < size]_vars
  BY <1>1
<1>. QED
  BY <1>2, IInvAlways, PTL DEF Spec, EveryRangeAdvances
=============================================================================
