---------------------------- MODULE SocketStream ----------------------------
(***************************************************************************)
(* One connected socket, seen through its stdio stream                     *)
(* (src/src/socketrtr.c).                                                  *)
(*                                                                         *)
(* Rules read and write a socket by logical name; the router callbacks     *)
(* hand every character to the C library's FILE, opened "r+" over the      *)
(* descriptor.  One buffer serves both directions of that FILE, and the    *)
(* library seeks when it turns round over unread input.  A socket cannot   *)
(* seek, so what a script reads and what its peer receives depend on the   *)
(* order of reads, writes and buffering calls.                             *)
(*                                                                         *)
(* The FILE's own rules and the kernel's queues are outside src/; what     *)
(* calls them, and what it does with their answers, is socketrtr.c.        *)
(***************************************************************************)
EXTENDS Integers, Sequences, FiniteSets, SequencesExt

(* A definition with "Slip" in its name is a plausible slip in the code its *)
(* neighbour models; no action uses it.                                    *)

CONSTANTS
    InMax,     \* bound: bytes of the peer that are told apart (PeerSendsMore)
    OutMax,    \* bound: pieces of text the script prints
    BufSize,   \* bytes one read of a buffered stream may take
    SendBuf,   \* pieces the kernel holds for the peer before a write waits
    Habit,     \* the habits a script may have: "any"; or "unbuffered":
               \* set-not-buffered comes first, nothing is pushed back, and
               \* recvfrom, sendto and O_NONBLOCK are left alone
    Impatience \* what the script uses so as not to wait: "nonblock", "timeout"

ASSUME BoundsAssumption ==
    /\ InMax \in Nat /\ OutMax \in Nat
    /\ BufSize \in Nat \ {0} /\ SendBuf \in Nat \ {0}
ASSUME HabitAssumption == Habit \subseteq {"any", "unbuffered"}
ASSUME ImpatienceAssumption == Impatience \subseteq {"nonblock", "timeout"}

Byte == 1..InMax     \* the peer's bytes, in the order it sends them
Text == 1..OutMax    \* the script's pieces of text, in the order it prints them

VARIABLES
    file,     \* the FILE (see FileState)
    rq,       \* bytes the kernel has received for us
    sq,       \* text the kernel holds for the peer
    sent,     \* how many bytes the peer has sent
    peer,     \* "open"; has "finished" sending; is "gone"; answered "reset"
    arrived,  \* text the peer has received
    printed,  \* how many pieces the script has printed
    got,      \* bytes the script has read
    promised, \* pieces printed when flush-connection last answered TRUE
    options,  \* O_NONBLOCK; whether a receive timeout is in force
    shut,     \* shutdown-connection was called
    habit,    \* the script's habit
    doing     \* "script"; "emptying", inside empty-connection; "flooded", there
              \* and with one more byte than are told apart in the kernel;
              \* "closed"; or "killed", by SIGPIPE

vars == <<file, rq, sq, sent, peer, arrived, printed, got, promised, options,
          shut, doing, habit>>

FileState ==
    [mode    : {"fully", "line", "not"},
     tiny    : BOOLEAN,    \* its buffer is an unbuffered FILE's one character
     rd      : Seq(Byte),  \* read ahead, not yet taken
     wr      : Seq(Text),  \* printed, not yet written
     putting : BOOLEAN,    \* the last transfer was a write
     stale   : BOOLEAN,    \* ... and began over unread input: no write without
                           \* a seek
     eof     : BOOLEAN]    \* end of file was seen, which sticks

Options == [nonblock : BOOLEAN, timed : BOOLEAN]

Unbuffered == habit = "unbuffered"

\* The script is between two calls, and keeps to its habit.
Ready == doing = "script" /\ (Unbuffered => file.tiny)

-----------------------------------------------------------------------------
(* The kernel's end of a write.                                            *)

Broken == shut \/ peer = "reset"

Room == IF SendBuf > Len(sq) THEN SendBuf - Len(sq) ELSE 0

\* What a write of t hands over: all of it or, without waiting, what fits.
Taken(t) == IF options.nonblock /\ Len(t) > Room THEN SubSeq(t, 1, Room) ELSE t

\* A write of t that returns.  The first one after the peer left provokes its
\* RST; text for a peer that left goes nowhere.
Emit(t) ==
    IF t = << >> THEN UNCHANGED <<sq, peer>>
    ELSE /\ ~Broken
         /\ options.nonblock \/ Len(sq) < SendBuf
         /\ sq' = IF peer = "gone" THEN sq ELSE sq \o Taken(t)
         /\ peer' = IF peer = "gone" THEN "reset" ELSE peer

-----------------------------------------------------------------------------
(* The FILE.                                                               *)

\* What flushing f writes, and what it leaves.  Stale text stays: the seek back
\* over the unread input fails.
Outgoing(f) == IF f.stale THEN << >> ELSE f.wr

Drained(f) == IF f.stale THEN f ELSE [f EXCEPT !.wr = << >>]

\* A turn to writing, and one to reading.
ToPut(f) == IF f.putting THEN f
            ELSE [f EXCEPT !.putting = TRUE, !.stale = (f.rd # << >>)]

ToGet(f) == [f EXCEPT !.putting = FALSE, !.stale = FALSE, !.wr = << >>]

Wedged == file.stale /\ file.wr # << >>

\* The kernel took less than the buffer held; the library drops the rest.
CutShort == peer # "gone" /\ Taken(Outgoing(file)) # Outgoing(file)

\* The next byte getc returns, what stays read ahead, what stays in the kernel.
Fetch ==
    IF file.rd # << >>
    THEN {[byte |-> Head(file.rd), rd |-> Tail(file.rd), rq |-> rq]}
    ELSE IF file.eof \/ rq = << >> THEN {}
    ELSE LET n == IF file.tiny THEN 1 ELSE IF BufSize < Len(rq) THEN BufSize ELSE Len(rq)
         IN {[byte |-> Head(rq), rd |-> SubSeq(rq, 2, n), rq |-> SubSeq(rq, n + 1, Len(rq))]}

InputEnded == peer # "open" \/ shut

Impatient == options.nonblock \/ options.timed

\* getc returns x.byte; back is what is then pushed back.
GetByte(x, back) ==
    /\ ~Wedged /\ ~CutShort
    /\ Emit(Outgoing(file))
    /\ file' = [ToGet(file) EXCEPT !.rd = back \o x.rd]
    /\ rq' = x.rq

\* getc returns EOF: the turn failed, the input ended, or there is none yet and
\* the descriptor does not wait.  Otherwise getc waits.
GetEof ==
    /\ UNCHANGED rq
    /\ \/ Wedged /\ UNCHANGED <<file, sq, peer>>
       \/ CutShort /\ Emit(Outgoing(file)) /\ file' = Drained(file)
       \/ /\ ~Wedged /\ ~CutShort
          /\ Fetch = {}
          /\ file.eof \/ InputEnded \/ Impatient
          /\ Emit(Outgoing(file))
          /\ file' = [ToGet(file) EXCEPT !.eof = @ \/ InputEnded]

-----------------------------------------------------------------------------
Init ==
    /\ file = [mode |-> "fully", tiny |-> FALSE, rd |-> << >>, wr |-> << >>,
               putting |-> FALSE, stale |-> FALSE, eof |-> FALSE]
    /\ rq = << >> /\ sq = << >> /\ sent = 0 /\ peer = "open" /\ arrived = << >>
    /\ printed = 0 /\ got = << >> /\ promised = 0
    /\ options = [nonblock |-> FALSE, timed |-> FALSE]
    /\ shut = FALSE /\ doing = "script" /\ habit \in Habit

ReadSocketSlip ==                 \* leaves the character where it found it
    /\ Ready
    /\ \/ \E x \in Fetch : GetByte(x, <<x.byte>>) /\ got' = Append(got, x.byte)
       \/ GetEof /\ UNCHANGED got
    /\ UNCHANGED <<sent, arrived, printed, promised, options, shut, doing>>

\* get-char and readline: one character through the read callback.
ReadSocket ==
    /\ Ready
    /\ \/ \E x \in Fetch : GetByte(x, << >>) /\ got' = Append(got, x.byte)
       \/ GetEof /\ UNCHANGED got
    /\ UNCHANGED <<sent, arrived, printed, promised, options, shut, doing>>

\* read: the scanner takes the character that ends a token and pushes it back.
UnreadSocket ==
    /\ Ready /\ ~Unbuffered
    /\ \E x \in Fetch : GetByte(x, <<x.byte>>)
    /\ UNCHANGED <<sent, arrived, printed, got, promised, options, shut, doing>>

WriteSocketSlip(endsLine) ==      \* gives up on a peer that is slow to receive
    /\ Ready /\ printed + 1 \in Text
    /\ printed' = printed + 1
    /\ file' = ToPut(file)
    /\ IF Room = 0 THEN UNCHANGED <<sq, peer>> ELSE Emit(<<printed + 1>>)
    /\ UNCHANGED <<rq, sent, arrived, got, promised, options, shut, doing>>

\* printout: one piece through the write callback; endsLine if it ends a line.
\* An unbuffered FILE drops a piece it cannot write; a buffer with no room left
\* first sends what it holds, or drops the piece.
WriteSocket(endsLine) ==
    LET f == ToPut(file)
        p == printed + 1
        all == [f EXCEPT !.wr = Append(@, p)]
    IN
    /\ Ready /\ p \in Text
    /\ printed' = p
    /\ \/ f.tiny /\ f.stale /\ file' = f /\ UNCHANGED <<sq, peer>>
       \/ f.tiny /\ ~f.stale /\ file' = f /\ Emit(<<p>>)
       \/ /\ ~f.tiny
          /\ f.mode = "not" \/ (f.mode = "line" /\ endsLine)
          /\ Emit(Outgoing(all)) /\ file' = Drained(all)
       \/ /\ ~f.tiny
          /\ f.mode = "fully" \/ (f.mode = "line" /\ ~endsLine)
          /\ file' = all /\ UNCHANGED <<sq, peer>>
       \/ /\ ~f.tiny /\ f.wr # << >>
          /\ Emit(Outgoing(f))
          /\ file' = IF f.stale THEN f ELSE [f EXCEPT !.wr = <<p>>]
    /\ UNCHANGED <<rq, sent, arrived, got, promised, options, shut, doing>>

\* flush-connection.  The answer is TRUE whatever fflush says.
FlushConnection ==
    /\ Ready
    /\ Emit(Outgoing(file))
    /\ file' = Drained(file)
    /\ promised' = printed
    /\ UNCHANGED <<rq, sent, arrived, printed, got, options, shut, doing>>

\* empty-connection: fgetc until EOF.
EmptyConnection ==
    /\ Ready
    /\ doing' = "emptying"
    /\ UNCHANGED <<file, rq, sq, sent, peer, arrived, printed, got, promised, options, shut>>

EmptyConnectionByteSlip ==        \* until feof, and there is none yet
    /\ doing = "emptying"
    /\ \/ \E x \in Fetch : GetByte(x, << >>) /\ UNCHANGED doing
       \/ GetEof /\ doing' = IF file'.eof THEN "script" ELSE doing
    /\ UNCHANGED <<sent, arrived, printed, got, promised, options, shut>>

EmptyConnectionByte ==
    /\ doing = "emptying"
    /\ \/ \E x \in Fetch : GetByte(x, << >>) /\ UNCHANGED doing
       \/ GetEof /\ doing' = "script"
    /\ UNCHANGED <<sent, arrived, printed, got, promised, options, shut>>

\* ... and one byte more than are told apart.
EmptyConnectionMore ==
    /\ doing = "flooded"
    /\ doing' = "emptying"
    /\ UNCHANGED <<file, rq, sq, sent, peer, arrived, printed, got, promised, options, shut>>

\* set-fully-buffered and set-line-buffered change the mode alone.  They are
\* modelled up to the first piece printed or the first set-not-buffered.
SetBuffered(m) ==
    /\ Ready /\ printed = 0 /\ ~file.tiny
    /\ file' = [file EXCEPT !.mode = m]
    /\ UNCHANGED <<rq, sq, sent, peer, arrived, printed, got, promised, options, shut, doing>>

SetNotBufferedSlip ==             \* purges instead of flushing
    /\ doing = "script"
    /\ file' = [ToGet(file) EXCEPT !.mode = "not", !.tiny = TRUE, !.rd = << >>]
    /\ UNCHANGED <<rq, sq, peer, sent, arrived, printed, got, promised, options, shut, doing>>

\* set-not-buffered flushes, drops what was read ahead, and shrinks the buffer;
\* a flush that fails leaves the buffer as it is.
SetNotBuffered ==
    /\ doing = "script"
    /\ Emit(Outgoing(file))
    /\ file' = IF Wedged \/ CutShort
               THEN [Drained(file) EXCEPT !.mode = "not"]
               ELSE [ToGet(file) EXCEPT !.mode = "not", !.tiny = TRUE, !.rd = << >>]
    /\ UNCHANGED <<rq, sent, arrived, printed, got, promised, options, shut, doing>>

\* recvfrom and sendto go to the descriptor, round the stream.
RecvfromFunction ==
    /\ Ready /\ ~Unbuffered
    /\ \E n \in 1..Len(rq) :
         got' = got \o SubSeq(rq, 1, n) /\ rq' = SubSeq(rq, n + 1, Len(rq))
    /\ UNCHANGED <<file, sq, sent, peer, arrived, printed, promised, options, shut, doing>>

SendtoFunction ==
    /\ Ready /\ ~Unbuffered /\ printed + 1 \in Text
    /\ Room > 0 /\ Emit(<<printed + 1>>)
    /\ printed' = printed + 1
    /\ UNCHANGED <<file, rq, sent, arrived, got, promised, options, shut, doing>>

\* fcntl-add-status-flags and fcntl-remove-status-flags with O_NONBLOCK.
FcntlStatusFlags(on) ==
    /\ doing = "script" /\ "nonblock" \in Impatience /\ ~Unbuffered
    /\ options' = [options EXCEPT !.nonblock = on]
    /\ UNCHANGED <<file, rq, sq, sent, peer, arrived, printed, got, promised, shut, doing>>

\* set-timeout: the microseconds go into tv_usec alone, and the kernel refuses
\* a second or more (EDOM).
SetTimeout(us) ==
    /\ doing = "script" /\ "timeout" \in Impatience
    /\ options' = [options EXCEPT !.timed = IF us = "long" THEN @ ELSE us = "short"]
    /\ UNCHANGED <<file, rq, sq, sent, peer, arrived, printed, got, promised, shut, doing>>

\* shutdown-connection: its second argument is not accepted, so always both ways.
ShutdownConnection ==
    /\ Ready
    /\ shut' = TRUE
    /\ UNCHANGED <<file, rq, sq, sent, peer, arrived, printed, got, promised, options, doing>>

\* close-connection: fclose flushes what it can.  A socket closed over input
\* nobody read answers RST, and the peer may lose what was under way to it.
CloseConnection ==
    /\ doing = "script"
    /\ doing' = "closed"
    /\ \/ Emit(Outgoing(file))
       \/ rq # << >> /\ ~Broken /\ sq' = << >> /\ UNCHANGED peer
    /\ file' = Drained(file)
    /\ UNCHANGED <<rq, sent, arrived, printed, got, promised, options, shut>>

\* A write after the peer left, or after shutdown: SIGPIPE is not ignored.
BrokenPipe ==
    /\ doing \in {"script", "emptying"}
    /\ Broken \/ peer = "gone"
    /\ \/ Outgoing(file) # << >>
       \/ Ready /\ printed < OutMax /\ file.mode # "fully" /\ ~ToPut(file).stale
    /\ doing' = "killed"
    /\ UNCHANGED <<file, rq, sq, sent, peer, arrived, printed, got, promised, options, shut>>

-----------------------------------------------------------------------------
(* The peer and the network.                                               *)

PeerSends ==
    /\ peer = "open" /\ doing # "closed" /\ sent < InMax
    /\ sent' = sent + 1
    /\ rq' = Append(rq, sent + 1)
    /\ UNCHANGED <<file, sq, peer, arrived, printed, got, promised, options, shut, doing>>

\* The peer may never stop: while empty-connection reads, one more byte comes.
PeerSendsMore ==
    /\ peer = "open" /\ doing = "emptying" /\ sent = InMax
    /\ file.rd = << >> /\ rq = << >> /\ ~file.putting /\ ~file.eof
    /\ doing' = "flooded"
    /\ UNCHANGED <<file, rq, sq, sent, peer, arrived, printed, got, promised, options, shut>>

PeerReceives ==
    /\ peer \in {"open", "finished"} /\ sq # << >>
    /\ arrived' = Append(arrived, Head(sq))
    /\ sq' = Tail(sq)
    /\ UNCHANGED <<file, rq, sent, peer, printed, got, promised, options, shut, doing>>

PeerLeaves(how) ==
    /\ \/ peer = "open" /\ how \in {"finished", "gone", "reset"}
       \/ peer = "finished" /\ how \in {"gone", "reset"}
    /\ peer' = how
    /\ sq' = IF how = "finished" THEN sq ELSE << >>
    /\ UNCHANGED <<file, rq, sent, arrived, printed, got, promised, options, shut, doing>>

Over == doing \in {"closed", "killed"} /\ UNCHANGED vars

-----------------------------------------------------------------------------
Transfer == \/ ReadSocket \/ UnreadSocket \/ \E b \in BOOLEAN : WriteSocket(b)
            \/ RecvfromFunction \/ SendtoFunction

Control == \/ FlushConnection \/ EmptyConnection \/ SetNotBuffered
           \/ \E m \in {"fully", "line"} : SetBuffered(m)
           \/ \E b \in BOOLEAN : FcntlStatusFlags(b)
           \/ \E us \in {"zero", "short", "long"} : SetTimeout(us)
           \/ ShutdownConnection \/ CloseConnection

Peer == \/ PeerSends \/ PeerSendsMore \/ PeerReceives
        \/ \E how \in {"finished", "gone", "reset"} : PeerLeaves(how)

Next == /\ \/ Transfer \/ Control \/ EmptyConnectionByte \/ EmptyConnectionMore
           \/ BrokenPipe \/ Peer \/ Over
        /\ UNCHANGED habit

Spec == Init /\ [][Next]_vars

\* empty-connection loops in C: while its next fgetc can return, or die of
\* SIGPIPE, it does, whatever the peer does meanwhile.
FairSpec ==
    /\ Spec
    /\ WF_vars(/\ \/ EmptyConnectionByte \/ EmptyConnectionMore
                  \/ doing = "emptying" /\ BrokenPipe
               /\ UNCHANGED habit)

-----------------------------------------------------------------------------
(* Properties.                                                             *)

TypeOK ==
    /\ file \in FileState
    /\ rq \in Seq(Byte) /\ sq \in Seq(Text)
    /\ sent \in 0..InMax
    /\ peer \in {"open", "finished", "gone", "reset"}
    /\ arrived \in Seq(Text) /\ printed \in 0..OutMax
    /\ got \in Seq(Byte) /\ promised \in 0..OutMax
    /\ options \in Options /\ shut \in BOOLEAN
    /\ doing \in {"script", "emptying", "flooded", "closed", "killed"}
    /\ habit \in Habit

\* Whatever the order of calls, no byte is read twice, not even by going round
\* the stream, and no piece of text reaches the peer twice.
NothingTwice == IsInjective(got \o file.rd \o rq) /\ IsInjective(arrived \o sq \o file.wr)

\* A buffered stream printed to over unread input is lost for good: no flush,
\* no read, no empty-connection and no buffering call brings it back, and none
\* of them reports it.
WedgedForGood == [][Wedged => Wedged']_vars

\* flush-connection answers TRUE when what was printed is on its way: every
\* piece it vouched for has left the process, while the peer is there.
FlushKeepsPromise ==
    ~InputEnded /\ doing # "closed" =>
        \A p \in 1..promised : \E i \in DOMAIN (arrived \o sq) : (arrived \o sq)[i] = p

\* ... it does, where the script keeps the stream unbuffered.
UnbufferedFlushKeepsPromise == Unbuffered => FlushKeepsPromise

\* poll with POLLIN; poll answers FALSE only if a read would have nothing.
PollIn == rq # << >> \/ InputEnded

PollSeesInput == Unbuffered /\ doing = "script" /\ ~PollIn => file.rd = << >>

\* On a descriptor that does not wait, only a peer that never stops sending keeps
\* empty-connection from returning.  (A receive timeout is not enough: the first
\* fgetc may write.)
EmptyReturns ==
    <>[](doing \in {"emptying", "flooded"} /\ options.nonblock) => []<>(doing = "flooded")

-----------------------------------------------------------------------------
Conversation ==
    INSTANCE Conversation WITH
        Byte <- Byte,
        inbox <- IF Unbuffered THEN file.rd \o rq ELSE << >>,
        seen <- IF Unbuffered THEN got ELSE << >>,
        outbox <- IF Unbuffered THEN sq ELSE << >>,
        heard <- IF Unbuffered THEN arrived ELSE << >>,
        said <- IF Unbuffered THEN printed ELSE 0,
        there <- Unbuffered => peer \in {"open", "finished"} /\ doing # "closed"

\* An unbuffered stream is two first-in first-out channels: bytes are read in
\* the order sent, text arrives in the order printed, none missing between.
\* (A script of any habit is no conversation: it maps to one that stutters.)
ImplementsConversation == Conversation!ConvSpec

\* What keeps it so, whatever the order of calls: a byte that is somewhere was
\* sent, a piece of text was printed, and text is stale in the turn it spoilt.
KnownBytes == \A s \in {got, file.rd, rq} : \A i \in DOMAIN s : s[i] <= sent
KnownTexts == \A s \in {arrived, sq, file.wr} : \A i \in DOMAIN s : s[i] <= printed
StaleWhilePutting == file.stale => file.putting

\* ... and where the stream is kept unbuffered: the FILE holds nothing.
HoldsNothing ==
    Unbuffered =>
        /\ file.rd = << >> /\ file.wr = << >> /\ ~file.stale /\ ~options.nonblock
        /\ file.tiny => file.mode = "not"
        /\ ~file.tiny => printed = 0 /\ doing \notin {"emptying", "flooded"}

\* All that was printed has left the process, in order, for a peer that is there.
SaidInOrder ==
    Unbuffered /\ peer \in {"open", "finished"} /\ doing # "closed" =>
        /\ Len(arrived \o sq) = printed
        /\ \A i \in 1..printed : (arrived \o sq)[i] = i

\* Whatever the order of calls: nothing read or delivered twice; and under the
\* habit of set-not-buffered first, an orderly conversation.
IInv ==
    /\ TypeOK /\ NothingTwice /\ KnownBytes /\ KnownTexts /\ StaleWhilePutting
    /\ HoldsNothing /\ SaidInOrder /\ promised <= printed

\* Under the habit of set-not-buffered first (server-complex.clp:96), what
\* flush-connection and poll answer is so.
UnbufferedTellsTheTruth == UnbufferedFlushKeepsPromise /\ PollSeesInput
=============================================================================
