--------------------------- MODULE UpstreamStartup --------------------------
(***************************************************************************)
(* The handshake with PostgreSQL on behalf of a client:                    *)
(* postgres_upstream::connect in crates/pgtest-wire/src.                   *)
(*                                                                         *)
(* PostgreSQL answers with frames: a tag byte, a length of four bytes that *)
(* counts itself and the body, the body.  The bytes arrive in chunks of    *)
(* any size and may end anywhere.  Bytes are counted, not spelled out: the *)
(* frame that starts at a position of the stream is known.  The first      *)
(* frame authenticates; the following ones up to ReadyForQuery or an error *)
(* are the burst, which is kept for the client.                            *)
(***************************************************************************)
EXTENDS Integers, Sequences

CONSTANTS
    Answers,        \* frame sequences PostgreSQL may send
    ClientParams,   \* startup parameters the client may have sent
    MaxAuthLength,  \* Authentication::max_message_length()
    MaxLength,      \* i32::MAX
    MaxUsize        \* usize::MAX

ASSUME WidthsAssumption == {MaxAuthLength, MaxLength, MaxUsize} \subseteq Nat

ASSUME AnswersAssumption == Answers \subseteq Seq([tag : STRING, length : Int, code : Int])

VARIABLES
    frames,     \* what PostgreSQL sends,
    sent,       \* how many bytes of it,
    closes,     \* and whether it closes the connection then
    stage,      \* where connect is
    startup,    \* startup parameters sent to PostgreSQL
    received,   \* bytes read from the connection
    buffered,   \* bytes of them in the buffer
    cursor,     \* offset in the buffer of the frame that is read
    outcome     \* what connect returns: an error, or the length of the burst

upstream == <<frames, sent, closes>>
vars == <<upstream, stage, startup, received, buffered, cursor, outcome>>

\* Bytes of a frame: tag and length are five whatever the length says.
Size(f) == IF f.length < 4 THEN 5 ELSE 1 + f.length

\* Where each frame of an answer starts, and its end.
Starts(answer) ==
    LET start[i \in 1 .. Len(answer) + 1] ==
            IF i = 1 THEN 0 ELSE start[i - 1] + Size(answer[i - 1])
    IN  start

Start(i) == Starts(frames)[i]

Init ==
    /\ frames \in Answers
    /\ sent \in 0 .. Start(Len(frames) + 1)
    /\ closes \in BOOLEAN
    /\ stage = "Connect"
    /\ startup = {}
    /\ received = 0
    /\ buffered = 0
    /\ cursor = 0
    /\ outcome = "None"

Fail(error) ==
    /\ stage' = "Failed"
    /\ outcome' = error
    /\ UNCHANGED <<upstream, startup, received, buffered, cursor>>

----------------------------------------------------------------------------
\* connect_stream and send_startup.

ConnectFails == stage = "Connect" /\ Fail("Io")

\* The client's parameters, except that the database is the leased one.
Forwardable(params) == params \ {"database", "replication"}

SendStartup(params) ==
    /\ stage = "Connect"
    /\ stage' = "Authenticate"
    /\ startup' = Forwardable(params) \cup {"leased database"}
    /\ UNCHANGED <<upstream, received, buffered, cursor, outcome>>

----------------------------------------------------------------------------
\* read_frame and read_until.

Reading == stage \in {"Authenticate", "WaitForReady"}

Garbage == [tag |-> "?", length |-> -1, code |-> 0]

\* The frame whose first byte is at the cursor.
Current ==
    LET at == received - buffered + cursor
        start == Starts(frames)
        found == {i \in DOMAIN frames : start[i] = at}
    IN  IF found = {} THEN Garbage ELSE frames[CHOOSE i \in found : TRUE]

HeaderRead == buffered >= cursor + 5

\* What is wrong with the length of the current frame, before its body is read.
LengthError ==
    LET limit == IF stage = "Authenticate" THEN MaxAuthLength ELSE MaxLength
    IN  CASE Current.length < 4 -> "InvalidFrameLength"
          [] Current.length > limit -> "MessageTooLarge"
          [] cursor + Size(Current) > MaxUsize -> "InvalidFrameLength"
          [] OTHER -> "None"

FrameEnd == cursor + Size(Current)

FrameRead == HeaderRead /\ LengthError = "None" /\ buffered >= FrameEnd

\* The task waits for more bytes.
Wanting == Reading /\ (~HeaderRead \/ (LengthError = "None" /\ buffered < FrameEnd))

ReadBytes(n) ==
    /\ Wanting
    /\ received + n <= sent
    /\ received' = received + n
    /\ buffered' = buffered + n
    /\ UNCHANGED <<upstream, stage, startup, cursor, outcome>>

\* Faulty variant: a read of no bytes is tried again.
KeepsReading == Wanting /\ received = sent /\ closes /\ UNCHANGED vars

ConnectionEnds == Wanting /\ received = sent /\ closes /\ Fail("UnexpectedEof")

\* The read itself fails.
ReadFails == Wanting /\ Fail("Io")

FrameRejected == Reading /\ HeaderRead /\ LengthError # "None" /\ Fail(LengthError)

----------------------------------------------------------------------------
\* authenticate.

\* What is wrong with the first frame.
AuthenticationError(f) ==
    CASE f.tag = "E" -> "StartupRejected"
      [] f.tag # "R" -> "UnexpectedMessage"
      [] f.length < 8 \/ (f.code = 5 /\ f.length < 12) -> "InvalidFrameLength"
      [] f.code # 0 -> "UnsupportedAuthentication"
      [] OTHER -> "None"

AuthenticationFails ==
    /\ stage = "Authenticate"
    /\ FrameRead
    /\ AuthenticationError(Current) # "None"
    /\ Fail(AuthenticationError(Current))

\* Faulty variant: the next stage starts with an empty buffer.
DropsTheRest ==
    /\ stage = "Authenticate"
    /\ FrameRead
    /\ AuthenticationError(Current) = "None"
    /\ stage' = "WaitForReady"
    /\ buffered' = 0
    /\ UNCHANGED <<upstream, startup, received, cursor, outcome>>

\* Bytes after AuthenticationOk are preserved for the next stage.
Authenticated ==
    /\ stage = "Authenticate"
    /\ FrameRead
    /\ AuthenticationError(Current) = "None"
    /\ stage' = "WaitForReady"
    /\ buffered' = buffered - FrameEnd
    /\ UNCHANGED <<upstream, startup, received, cursor, outcome>>

----------------------------------------------------------------------------
\* wait_for_ready_for_query.

Terminal(f) == f.tag \in {"Z", "E"}

FramePassed ==
    /\ stage = "WaitForReady"
    /\ FrameRead
    /\ ~Terminal(Current)
    /\ cursor' = FrameEnd
    /\ UNCHANGED <<upstream, stage, startup, received, buffered, outcome>>

\* The burst is split off the buffer; what is behind it goes with the buffer.
BurstComplete ==
    /\ stage = "WaitForReady"
    /\ FrameRead
    /\ Terminal(Current)
    /\ stage' = "Connected"
    /\ cursor' = FrameEnd
    /\ outcome' = "Burst"
    /\ UNCHANGED <<upstream, startup, received, buffered>>

----------------------------------------------------------------------------

TaskStep ==
    \/ ConnectionEnds
    \/ FrameRejected
    \/ AuthenticationFails
    \/ Authenticated
    \/ FramePassed
    \/ BurstComplete

Next ==
    \/ ConnectFails
    \/ \E params \in ClientParams : SendStartup(params)
    \/ \E n \in 1 .. sent - received : ReadBytes(n)
    \/ ReadFails
    \/ TaskStep

\* Bytes that were sent arrive, and the task is polled.
Spec ==
    /\ Init /\ [][Next]_vars
    /\ WF_vars(TaskStep)
    /\ WF_vars(\E n \in 1 .. sent - received : ReadBytes(n))

----------------------------------------------------------------------------
\* Properties.

\* The whole of frame i was sent.
Complete(i) == Start(i) + Size(frames[i]) <= sent

\* Its length is one connect accepts.
Acceptable(i) ==
    /\ frames[i].length \in 4 .. (IF i = 1 THEN MaxAuthLength ELSE MaxLength)
    /\ (IF i = 1 THEN 0 ELSE Start(i) - Start(2)) + Size(frames[i]) <= MaxUsize

\* The frames connect should get through, looking at the stream as a whole: all
\* up to the first that ends the burst.
Handshake ==
    {i \in DOMAIN frames :
        /\ \A j \in 1 .. i : Complete(j) /\ Acceptable(j)
        /\ AuthenticationError(frames[1]) = "None"
        /\ \A j \in 2 .. i - 1 : ~Terminal(frames[j])}

\* What connect returns depends on what PostgreSQL sent, never on how it arrived
\* in chunks: it succeeds exactly when the first frame authenticates and all
\* frames up to ReadyForQuery or an error are sound and complete, the burst is
\* these frames and no byte more or less, and the database asked for is the
\* leased one whatever the client's parameters were.
ChunksAreInvisible ==
    /\ stage = "Connected" =>
            \E i \in Handshake :
                i > 1 /\ Terminal(frames[i]) /\ cursor = Start(i) + Size(frames[i]) - Start(2)
    /\ stage = "Failed" /\ outcome # "Io" =>
            \A i \in Handshake : i = 1 \/ ~Terminal(frames[i])
    /\ Reading => startup \cap {"database", "replication", "leased database"} = {"leased database"}

\* connect returns when PostgreSQL has finished its answer or hung up; it may
\* only wait for a PostgreSQL that stops in the middle.
ConnectReturns ==
    Reading ~> (~Reading \/ (received = sent /\ ~closes /\ Wanting))
=============================================================================
