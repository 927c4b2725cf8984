---------------------------- MODULE RangedDownload ----------------------------
(***************************************************************************)
(* An image fetched in ranged requests: the configuration run_update()     *)
(* hands over (src/src/ota-api.c), and the examples' server                *)
(* (examples/common/ota_server.py) answering them.  Between the two is     *)
(* esp_https_ota, external: it asks for the length of the image, then for  *)
(* max_http_request_size bytes at a time, and appends what it is sent.     *)
(*                                                                         *)
(* A byte of the image is its position.                                    *)
(***************************************************************************)
EXTENDS Integers, Sequences

CONSTANTS
    MaxSize,        \* largest image on the server
    IntMax,         \* largest int of the device; size_t has one bit more
    DefaultRequest  \* esp_https_ota's own request size, used for 0

ASSUME MaxSizeAssumption == MaxSize \in Nat
ASSUME IntMaxAssumption  == IntMax \in Nat /\ MaxSize <= IntMax
ASSUME DefaultRequestAssumption == DefaultRequest \in 1 .. IntMax

VARIABLES
    honour_range,            \* the server runs without --no-range
    size,                    \* size of the image it serves
    partial_download,        \* set, in a build that has it
    max_http_request_size,   \* config->max_http_request_size, a size_t
    pc,                      \* where esp_https_ota is
    request,                 \* the Range header of the request in flight
    response,                \* the server's answer
    written                  \* the bytes in the target partition, in order

serverVars == <<honour_range, size>>
configVars == <<partial_download, max_http_request_size>>
vars == <<serverVars, configVars, pc, request, response, written>>

SizeT == 0 .. 2 * IntMax + 1

(* A Range header: none; matching the pattern with both numbers, either or
   neither; or not matching it (another unit, several ranges, a minus sign). *)
Forms   == {"none", "closed", "open", "suffix", "empty", "malformed"}
Headers == [form : Forms, first : Nat, last : Nat]
Header(form, first, last) == [form |-> form, first |-> first, last |-> last]
NoRange == Header("none", 0, 0)

-----------------------------------------------------------------------------
(* The server. *)

Responses == [status : {200, 206, 416}, first : Int, last : Int]
Answer(status, first, last) == [status |-> status, first |-> first, last |-> last]

(* Mutant: off by one in the length of a whole file. *)
WholeFileAndOne(n) == Answer(200, 0, n)

WholeFile(n) == Answer(200, 0, n - 1)

NotSatisfiable == Answer(416, 0, -1)

(* Mutant: the last byte asked for is not clamped to the file. *)
LastByteUnclamped(header, n) == IF header.form = "open" THEN n - 1 ELSE header.last

LastByte(header, n) ==
    IF header.form = "open" \/ header.last > n - 1 THEN n - 1 ELSE header.last

(* parse_range(): None is the whole file, the exception a 416. *)
ParseRange(header, n) ==
    CASE header.form \in {"empty", "malformed"} -> WholeFile(n)
      [] header.form = "suffix" ->
           IF header.last = 0 \/ n = 0 THEN NotSatisfiable
           ELSE Answer(206, IF header.last < n THEN n - header.last ELSE 0, n - 1)
      [] header.form \in {"closed", "open"} ->
           IF header.form = "closed" /\ header.first > header.last THEN WholeFile(n)
           ELSE IF header.first >= n THEN NotSatisfiable
           ELSE Answer(206, header.first, LastByte(header, n))

SendHead(header, n) ==
    IF header.form = "none" \/ ~honour_range THEN WholeFile(n)
    ELSE ParseRange(header, n)

(* Mutant: the file is not sought to the first byte. *)
BodyFromStart(r) == [i \in 1 .. (r.last - r.first + 1) |-> i - 1]

Body(r) == [i \in 1 .. (r.last - r.first + 1) |-> r.first + i - 1]

-----------------------------------------------------------------------------
(* The device. *)

(* run_update() casts the size_t to an int. *)
RequestSize ==
    LET int == IF max_http_request_size <= IntMax THEN max_http_request_size
               ELSE max_http_request_size - 2 * (IntMax + 1)
    IN IF int = 0 THEN DefaultRequest ELSE int

Got == Len(written)

(* The Range header of the next request, as esp_https_ota computes it: of a
   negative number the minus sign is printed. *)
NextHeader ==
    LET last == Got + RequestSize - 1
    IN IF ~partial_download THEN NoRange
       ELSE IF size - Got > RequestSize
       THEN IF last < 0 THEN Header("malformed", 0, 0) ELSE Header("closed", Got, last)
       ELSE IF Got = 0 THEN NoRange ELSE Header("open", Got, 0)

Init ==
    /\ honour_range \in BOOLEAN
    /\ size \in 0 .. MaxSize
    /\ partial_download = FALSE
    /\ max_http_request_size = 0
    /\ pc = "idle"
    /\ request = NoRange
    /\ response = NotSatisfiable
    /\ written = <<>>

(* An update of any configuration, from a server started with or without
   --no-range, for whichever image was last built; its length comes first. *)
RunUpdate ==
    /\ pc = "idle"
    /\ honour_range' \in BOOLEAN
    /\ size' \in 0 .. MaxSize
    /\ partial_download' \in BOOLEAN
    /\ max_http_request_size' \in SizeT
    /\ pc' = "asking"
    /\ UNCHANGED <<request, response, written>>

Ask ==
    /\ pc = "asking"
    /\ request' = NextHeader
    /\ response' = SendHead(NextHeader, size)
    /\ pc' = "reading"
    /\ UNCHANGED <<serverVars, configVars, written>>

(* A whole body, after which there is another range to ask for or not. *)
Read ==
    /\ pc = "reading"
    /\ response.status # 416
    /\ written' = written \o Body(response)
    /\ pc' = IF partial_download /\ Len(written') < size THEN "asking" ELSE "received"
    /\ UNCHANGED <<serverVars, configVars, request, response>>

(* The connection breaks, or the answer is an error: the update fails.  After
   it, or after the commit, the next one starts over. *)
EndUpdate ==
    /\ pc \in {"asking", "reading", "received"}
    /\ pc' = "idle"
    /\ request' = NoRange
    /\ response' = NotSatisfiable
    /\ written' = <<>>
    /\ UNCHANGED <<serverVars, configVars>>

Next == RunUpdate \/ Ask \/ Read \/ EndUpdate

Spec == Init /\ [][Next]_vars

-----------------------------------------------------------------------------
(* Properties *)

TypeOK ==
    /\ honour_range \in BOOLEAN
    /\ size \in 0 .. MaxSize
    /\ partial_download \in BOOLEAN
    /\ max_http_request_size \in SizeT
    /\ pc \in {"idle", "asking", "reading", "received"}
    /\ request \in Headers
    /\ response \in Responses
    /\ written \in Seq(0 .. MaxSize - 1)

(* RFC 9110: the bytes of the file a header selects, and the headers that
   mean anything. *)
Selected(header, n) ==
    {p \in 0 .. n - 1 :
       IF header.form = "suffix" THEN p >= n - header.last
       ELSE p >= header.first /\ (header.form = "closed" => p <= header.last)}

Meaningful(header) ==
    \/ header.form \in {"open", "suffix"}
    \/ header.form = "closed" /\ header.first <= header.last

RightAnswer(header, n) ==
    LET r == ParseRange(header, n)
    IN IF ~Meaningful(header) THEN r = WholeFile(n)
       ELSE IF Selected(header, n) = {} THEN r = NotSatisfiable
       ELSE r.status = 206 /\ r.first .. r.last = Selected(header, n)

(* ota_server.py:198: of every header a client can send, for a file of any
   size, parse_range() makes exactly the bytes it selects - also at the first
   and the last byte, past the end and for an empty file. *)
RangeExact ==
    \A header \in [form : Forms \ {"none"}, first : 0 .. MaxSize + 1, last : 0 .. MaxSize + 1] :
        RightAnswer(header, size)

(* ota-api.h:113-118: whatever the size of a request - 1, the whole image,
   more than an int holds - and whether or not the server honours ranges, the
   bytes received are the image, each once and in order. *)
ImageReassembled ==
    pc = "received" => written = [i \in 1 .. size |-> i - 1]
=============================================================================
