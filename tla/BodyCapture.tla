---------------------------- MODULE BodyCapture ----------------------------
(***************************************************************************)
(* The bounded inspection copy of one body: previewReader, previewWriter   *)
(* and capturedBody of src/internal/dependencycapture/capture.go, as       *)
(* Proxy.forward and Proxy.replay use them, and the validation every event *)
(* must pass (validateCapturedBody of src/tunnelprotocol/validation.go).   *)
(*                                                                         *)
(* A body is its length.  Its text (after decoding, if it is encoded) is   *)
(* the set of its character boundaries: the offsets at which a prefix is   *)
(* valid UTF-8.  A reason is one of a few short words, always within the   *)
(* bound the protocol sets; the Content-Type is the peer's and need not be *)
(* within its own.  The body of a forwarded request is read by the         *)
(* transport in its own goroutine, which may go on reading after an early  *)
(* response.  Its response, and the request of a replay, are read to the   *)
(* end by the handler before it composes the event.                        *)
(***************************************************************************)
EXTENDS Integers, FiniteSetsExt

CONSTANTS
    Limit,    \* MaxDependencyRequestPreview, MaxDependencyResponsePreview
    MaxBody   \* bound: longest body, encoded or decoded

ASSUME BodyCaptureAssumption ==
    /\ Limit \in Nat \ {0}
    /\ MaxBody \in Nat

VARIABLES
    full,       \* length of the complete body
    concurrent, \* the transport reads it: the body of a forwarded request
    chunked,    \* there is no Content-Length, or it is not looked at
    textual,    \* isTextualContentType
    longType,   \* the normalized Content-Type is longer than 255 bytes
    encoding,   \* Content-Encoding: "none", "supported", "undecodable"
    decoded,    \* length of the decoded body, or of what decodes before an
                \* error; full when not encoded
    enough,     \* encoded bytes that decode to more than Limit bytes, whatever
                \* follows them; full + 1 when there is no such prefix
    bounds,     \* character boundaries of the text
    total,      \* total of the previewReader or previewWriter
    preview,    \* length of its preview
    pc,         \* "streaming", "sized", "done"
    size,       \* requestSize, or the total of the response
    raced,      \* bytes were read between taking the size and capturedBody
    body        \* the resulting CapturedBody

given == <<full, concurrent, chunked, textual, longType, encoding, decoded, enough, bounds>>
vars == <<given, total, preview, pc, size, raced, body>>

MaxWidth == 4   \* bytes of a UTF-8 character

\* The prefixes of a text of length n that are valid UTF-8.
Boundaries(n) ==
    {b \in SUBSET (0..n) :
        /\ 0 \in b
        /\ \A k \in b \ {0} : \E j \in b : j < k /\ k - j <= MaxWidth}

NotCaptured(s, reason) ==
    [captured |-> FALSE, size |-> s, bytes |-> 0, truncated |-> FALSE, reason |-> reason]

Init ==
    /\ full \in 0..MaxBody
    /\ concurrent \in BOOLEAN
    /\ chunked \in BOOLEAN
    /\ textual \in BOOLEAN
    /\ longType \in BOOLEAN
    /\ encoding \in {"none", "supported", "undecodable"}
    /\ decoded \in IF encoding = "none" THEN {full} ELSE 0..MaxBody
    /\ enough \in IF encoding # "none" /\ decoded > Limit THEN 1..(full + 1) ELSE {full + 1}
    /\ bounds \in Boundaries(decoded)
    /\ total = 0 /\ preview = 0
    /\ pc = "streaming"
    /\ size = 0
    /\ raced = FALSE
    /\ body = NotCaptured(0, "")

----------------------------------------------------------------------------
\* The preview grows up to its limit.
Observed(p, n) == IF textual THEN p + Min({n, Limit - p}) ELSE p

\* The transport or the handler reads n bytes of the body.
Read(n) ==
    /\ pc = "streaming" \/ (concurrent /\ pc = "sized")
    /\ total + n <= full
    /\ total' = total + n
    /\ preview' = Observed(preview, n)
    /\ raced' = (raced \/ pc = "sized")
    /\ UNCHANGED <<given, pc, size, body>>

\* The response is complete: the handler takes the size of the body.  One that
\* it reads itself has been read to the end; an error on the way ends the
\* handler without an event.
TakeSize ==
    /\ pc = "streaming"
    /\ concurrent \/ total = full
    /\ pc' = "sized"
    /\ size' = IF chunked THEN total ELSE full
    /\ UNCHANGED <<given, total, preview, raced, body>>

\* decodeBodyPreview succeeds on the whole of a non-empty supported stream,
\* and on any part, or any corrupt one, that yields a byte more than the limit.
Decodable(p) ==
    \/ encoding = "supported" /\ p = full /\ full > 0
    \/ encoding # "none" /\ p >= enough

Valid(p) == p \in bounds

Mut_MaxRemoved == MaxWidth - 2

\* How many bytes of a character may have been cut off.
MaxRemoved == MaxWidth - 1

\* The text p bytes long, of s in all, with an incomplete last character
\* removed if something follows it.
Text(p, s) ==
    LET cut == {k \in (p - MaxRemoved)..(p - 1) : k >= 0 /\ s > p /\ Valid(k)} IN
    IF Valid(p) \/ cut # {}
    THEN LET n == IF Valid(p) THEN p ELSE Max(cut) IN
         [captured |-> TRUE, size |-> s, bytes |-> n, truncated |-> s > n, reason |-> ""]
    ELSE NotCaptured(s, "invalid_text")

Mut_DecodedSize(s) == s

\* SizeBytes of a decoded body: one more than the limit when it was cut.
DecodedSize(s) == Min({decoded, Limit + 1})

capturedBody(p, s) ==
    CASE ~textual -> NotCaptured(s, "binary_content")
      [] textual /\ encoding = "none" -> Text(Min({p, Limit}), s)
      [] textual /\ encoding # "none" /\ s <= p /\ Decodable(p) ->
            Text(Min({decoded, Limit}), DecodedSize(s))
      [] OTHER -> NotCaptured(s, "encoded_content")

\* The event is composed from the preview of this moment.
Compose ==
    /\ pc = "sized"
    /\ pc' = "done"
    /\ body' = capturedBody(preview, size)
    /\ UNCHANGED <<given, total, preview, size, raced>>

Done == pc = "done" /\ UNCHANGED vars

Next == (\E n \in 1..MaxBody : Read(n)) \/ TakeSize \/ Compose \/ Done

Spec == Init /\ [][Next]_vars

----------------------------------------------------------------------------
\* validateCapturedBody: what the protocol requires of a captured body.
validateCapturedBody(b) ==
    /\ ~longType
    /\ b.size >= 0
    /\ b.bytes \in 0..Limit
    /\ ~b.captured => b.bytes = 0 /\ ~b.truncated
    /\ b.captured => /\ Valid(b.bytes)
                     /\ b.bytes <= b.size
                     /\ b.truncated = (b.bytes < b.size)

\* Type invariant; the preview never exceeds its limit or the bytes read.
TypeOK ==
    /\ total \in 0..full
    /\ preview \in 0..Min({Limit, total})
    /\ pc \in {"streaming", "sized", "done"}
    /\ size \in 0..full
    /\ raced \in BOOLEAN
    /\ body \in [captured : BOOLEAN, size : Nat, bytes : Nat, truncated : BOOLEAN,
                 reason : {"", "binary_content", "encoded_content", "invalid_text"}]

\* Every body forward and replay compose passes the validation of Enqueue, so
\* the event is not dropped: with an early response, a cut last character, any
\* encoding, on either side.  There are two exceptions.  capturedBody does not
\* bound the Content-Type it copies, and one of more than 255 bytes is refused;
\* and the preview of a chunked upload still being read while the event is
\* composed may be longer than the size taken before.
BodyAccepted == pc = "done" => validateCapturedBody(body) \/ longType \/ (chunked /\ raced)

\* Unencoded valid text that was read in full is captured, with all but at
\* most three bytes of what fits the limit, and marked truncated exactly when
\* something is missing.
ValidTextIsCaptured ==
    pc = "done" /\ textual /\ encoding = "none" /\ full \in bounds /\ total = full /\ ~raced =>
        /\ body.captured
        /\ body.bytes >= Min({full, Limit}) - MaxWidth + 1
        /\ body.truncated = (body.bytes < full)
=============================================================================
