--------------------------- MODULE Dispatch_proofs ---------------------------
(***************************************************************************)
(* Theorems about Dispatch for any number of calls.                        *)
(***************************************************************************)
EXTENDS DispatchRefinement, TLAPS

USE DEF settings

(* The reader is occupied while a call is awaited in it, and a nested call *)
(* that waits is awaited in its caller's reader.                           *)
ReaderBlocked ==
    /\ \A p \in Peers :
        awaits[p] # NoCall => reader[p] \in {"handling", "callbacks"}
    /\ \A c \in Calls :
        kind[c] = "nested" /\ status[c] = "waiting" => awaits[caller[c]] = c
    /\ NestedCallsStarve

(* A method runs for a call of the other peer that has no reply yet.       *)
MethodsInv ==
    \A p \in Peers :
        /\ reader[p] = "handling" <=> handles[p] # NoCall
        /\ handles[p] # NoCall =>
              /\ caller[handles[p]] = Other(p)
              /\ reply[handles[p]] = "none"
              /\ status[handles[p]] # "unused"

(* What is true of a frame on its way to p.                                *)
FrameOK(p, f) ==
    /\ f \in Frames
    /\ status[f.call] # "unused"
    /\ f.type = "request" =>
          /\ caller[f.call] = Other(p)
          /\ reply[f.call] = "none"
          /\ handles[p] # f.call
    /\ f.type = "answer" =>
          /\ reply[f.call] # "none"
          /\ f.body = "empty" => caller[f.call] = p
          /\ f.body = "answer" /\ caller[f.call] = p => reply[f.call] = "answer"

InboxOK(p, s) == \A i \in 1 .. Len(s) : FrameOK(p, s[i])

(* No request is on its way twice.                                         *)
Distinct(s) ==
    \A i, j \in 1 .. Len(s) :
        s[i].type = "request" /\ s[j].type = "request" /\ s[i].call = s[j].call
            => i = j

FramesInv ==
    /\ \A p \in Peers : InboxOK(p, inbox[p]) /\ Distinct(inbox[p])
    /\ \A c \in Calls : status[c] = "unused" => reply[c] = "none"
    /\ AnswersAreReal

Inv == TypeOK /\ ReaderBlocked /\ MethodsInv /\ FramesInv

-----------------------------------------------------------------------------
LEMMA PeerFacts ==
    /\ \A p \in Peers : Other(p) \in Peers /\ Other(p) # p /\ Other(Other(p)) = p
    /\ \A p, q \in Peers : q = p \/ q = Other(p)
BY DEF Peers, Other

LEMMA CallFacts == NoCall \notin Calls
BY DEF NoCall, Calls

(* A reader may be sent to any place.                                      *)
LEMMA PlaceFacts ==
    ASSUME TypeOK, NEW p \in Peers, NEW to \in Places,
           reader' = [reader EXCEPT ![p] = to]
    PROVE  reader' \in [Peers -> Places]
BY DEF TypeOK

(* The two kinds of frames.                                                *)
LEMMA FrameFacts ==
    ASSUME NEW f \in Frames
    PROVE  /\ f.call \in Calls
           /\ f.type \in {"request", "answer"}
           /\ f.type = "answer" => f.body \in Bodies
<1>1. CASE f \in Requests
    BY <1>1 DEF Requests
<1>2. CASE f \in Answers
    BY <1>2 DEF Answers
<1> QED BY <1>1, <1>2 DEF Frames

LEMMA NewFrames ==
    ASSUME NEW c \in Calls
    PROVE  /\ Request(c) \in Frames
           /\ Request(c).type = "request" /\ Request(c).call = c
           /\ \A body \in Bodies :
                /\ Answer(c, body) \in Frames
                /\ Answer(c, body).type = "answer"
                /\ Answer(c, body).call = c
                /\ Answer(c, body).body = body
BY DEF Request, Answer, Frames, Requests, Answers

(* What the operations on an inbox keep of it.                             *)
LEMMA TailKeeps ==
    ASSUME NEW p, NEW s \in Seq(Frames), s # <<>>, InboxOK(p, s), Distinct(s)
    PROVE  /\ Tail(s) \in Seq(Frames) /\ InboxOK(p, Tail(s)) /\ Distinct(Tail(s))
           /\ Head(s) \in Frames /\ FrameOK(p, Head(s))
           /\ Head(s).type = "request" =>
                \A i \in 1 .. Len(Tail(s)) :
                    Tail(s)[i].type = "request" => Tail(s)[i].call # Head(s).call
<1>1. /\ Len(s) \in Nat \ {0} /\ Len(Tail(s)) = Len(s) - 1
      /\ Tail(s) \in Seq(Frames)
      /\ Head(s) = s[1] /\ Head(s) \in Frames
    OBVIOUS
<1>2. \A i \in 1 .. Len(Tail(s)) : Tail(s)[i] = s[i + 1] /\ i + 1 \in 1 .. Len(s)
    BY <1>1
<1>3. InboxOK(p, Tail(s))
    BY <1>2 DEF InboxOK
<1>4. ASSUME NEW i \in 1 .. Len(Tail(s)), NEW j \in 1 .. Len(Tail(s)),
             Tail(s)[i].type = "request", Tail(s)[j].type = "request",
             Tail(s)[i].call = Tail(s)[j].call
      PROVE  i = j
    <2>1. i + 1 = j + 1
        BY <1>2, <1>4 DEF Distinct
    <2> QED BY <2>1, <1>1
<1>5. FrameOK(p, Head(s)) /\ 1 \in 1 .. Len(s)
    BY <1>1 DEF InboxOK
<1>6. ASSUME NEW i \in 1 .. Len(Tail(s)), Head(s).type = "request",
             Tail(s)[i].type = "request", Tail(s)[i].call = Head(s).call
      PROVE  FALSE
    <2>1. i + 1 = 1
        BY <1>1, <1>2, <1>5, <1>6 DEF Distinct
    <2> QED BY <2>1, <1>1
<1> QED BY <1>1, <1>3, <1>4, <1>5, <1>6 DEF Distinct

LEMMA PrefixKeeps ==
    ASSUME NEW p, NEW s \in Seq(Frames), InboxOK(p, s), Distinct(s),
           NEW n \in 0 .. Len(s)
    PROVE  /\ SubSeq(s, 1, n) \in Seq(Frames)
           /\ InboxOK(p, SubSeq(s, 1, n)) /\ Distinct(SubSeq(s, 1, n))
<1>1. /\ SubSeq(s, 1, n) \in Seq(Frames) /\ Len(SubSeq(s, 1, n)) = n
      /\ \A i \in 1 .. n : SubSeq(s, 1, n)[i] = s[i] /\ i \in 1 .. Len(s)
    OBVIOUS
<1> QED BY <1>1 DEF InboxOK, Distinct

(* Frames stay true when nothing they mention changes.                     *)
Kept(p) ==
    /\ \A c \in Calls :
          status[c] # "unused" =>
             caller'[c] = caller[c] /\ status'[c] # "unused" /\ reply'[c] = reply[c]
    /\ handles'[p] = handles[p] \/ handles'[p] = NoCall

LEMMA FramesKept ==
    ASSUME NEW p \in Peers, Kept(p)
    PROVE  /\ \A f \in Frames : FrameOK(p, f) => FrameOK(p, f)'
           /\ \A s : InboxOK(p, s) => InboxOK(p, s)'
<1>1. ASSUME NEW f, FrameOK(p, f) PROVE FrameOK(p, f)'
    <2>1. f.call \in Calls /\ f.call # NoCall
        BY <1>1, FrameFacts, CallFacts DEF FrameOK
    <2> QED BY <1>1, <2>1 DEF FrameOK, Kept
<1> QED BY <1>1 DEF InboxOK

(* An inbox from which frames were taken or lost.                          *)
LEMMA InboxShrinks ==
    ASSUME Inv, NEW p \in Peers, Kept(p),
           \/ inbox'[p] = inbox[p]
           \/ inbox'[p] = <<>>
           \/ inbox[p] # <<>> /\ inbox'[p] = Tail(inbox[p])
           \/ \E n \in 0 .. Len(inbox[p]) : inbox'[p] = SubSeq(inbox[p], 1, n)
    PROVE  /\ inbox'[p] \in Seq(Frames)
           /\ InboxOK(p, inbox[p])' /\ Distinct(inbox[p])'
<1>1. PICK s : s = inbox[p]
    OBVIOUS
<1>2. s \in Seq(Frames) /\ InboxOK(p, s) /\ Distinct(s)
    BY <1>1 DEF Inv, TypeOK, FramesInv
<1>3. PICK t : t = inbox'[p]
    OBVIOUS
<1>4. t \in Seq(Frames) /\ InboxOK(p, t) /\ Distinct(t)
    <2>1. CASE t = s
        BY <2>1, <1>2
    <2>2. CASE t = <<>>
        BY <2>2 DEF InboxOK, Distinct
    <2>3. CASE s # <<>> /\ t = Tail(s)
        BY <2>3, <1>2, TailKeeps
    <2>4. CASE \E n \in 0 .. Len(s) : t = SubSeq(s, 1, n)
        BY <2>4, <1>2, PrefixKeeps
    <2> QED BY <2>1, <2>2, <2>3, <2>4, <1>1, <1>3
<1>5. InboxOK(p, t)'
    BY <1>4, FramesKept
<1> QED BY <1>3, <1>4, <1>5 DEF InboxOK, Distinct

(* An inbox to which a frame was added.                                    *)
LEMMA InboxGrows ==
    ASSUME Inv, NEW p \in Peers, Kept(p),
           NEW f \in Frames, inbox'[p] = Append(inbox[p], f), FrameOK(p, f)',
           f.type = "request" => status[f.call] = "unused"
    PROVE  /\ inbox'[p] \in Seq(Frames)
           /\ InboxOK(p, inbox[p])' /\ Distinct(inbox[p])'
<1>1. PICK s : s = inbox[p]
    OBVIOUS
<1>2. s \in Seq(Frames) /\ InboxOK(p, s) /\ Distinct(s)
    BY <1>1 DEF Inv, TypeOK, FramesInv
<1>3. f.type = "request" => \A i \in 1 .. Len(s) : s[i].call # f.call
    BY <1>2 DEF InboxOK, FrameOK
<1>4. InboxOK(p, s)'
    BY <1>2, FramesKept
<1>5. PICK t : t = Append(s, f)
    OBVIOUS
<1>6. t \in Seq(Frames) /\ Distinct(t)
    <2>1. /\ t \in Seq(Frames) /\ Len(s) \in Nat /\ Len(t) = Len(s) + 1
          /\ \A i \in 1 .. Len(s) : t[i] = s[i]
          /\ t[Len(s) + 1] = f
          /\ \A i \in 1 .. Len(t) : i \in 1 .. Len(s) \/ i = Len(s) + 1
        BY <1>2, <1>5
    <2> QED BY <2>1, <1>2, <1>3 DEF Distinct
<1>7. \A i \in 1 .. Len(t) : (i \in 1 .. Len(s) /\ t[i] = s[i]) \/ t[i] = f
    BY <1>2, <1>5
<1>8. InboxOK(p, t)'
    BY <1>4, <1>7 DEF InboxOK
<1>9. t = inbox'[p]
    BY <1>1, <1>5
<1> QED BY <1>6, <1>8, <1>9 DEF InboxOK, Distinct

-----------------------------------------------------------------------------
LEMMA InitInv == Init => Inv
<1> SUFFICES ASSUME Init PROVE Inv
    OBVIOUS
<1>1. <<>> \in Seq(Frames) /\ NoCall \notin Calls
    BY CallFacts
<1>2. TypeOK
    BY <1>1 DEF Init, TypeOK, Places, Kinds, Peers
<1>3. ReaderBlocked
    BY DEF Init, ReaderBlocked, NestedCallsStarve
<1>4. MethodsInv
    BY DEF Init, MethodsInv, Peers
<1>5. FramesInv
    BY DEF Init, FramesInv, InboxOK, Distinct, AnswersAreReal
<1> QED BY <1>2, <1>3, <1>4, <1>5 DEF Inv

(* The parts of the invariant that say nothing of frames.                  *)
LEMMA FramesFromInboxes ==
    ASSUME \A p \in Peers : /\ inbox'[p] \in Seq(Frames)
                            /\ InboxOK(p, inbox[p])' /\ Distinct(inbox[p])',
           \A c \in Calls : status'[c] = "unused" => reply'[c] = "none",
           AnswersAreReal'
    PROVE  FramesInv'
BY DEF FramesInv

(* A call is made.                                                         *)
LEMMA CallStep ==
    ASSUME Inv, NEW p \in Peers, NEW c \in Calls, MakesCall(p, c)
    PROVE  Inv'
<1> USE PeerFacts, CallFacts
<1>1. PICK k \in Kinds :
         /\ Make(p, c, k)
         /\ k # "nested" => awaits' = awaits
         /\ k = "nested" => /\ awaits' = [awaits EXCEPT ![p] = c]
                            /\ reader[p] \in {"handling", "callbacks"}
                            /\ awaits[p] = NoCall
    BY DEF MakesCall, CallFromTask, CallForId, CallFromReader,
           CallInBackground, Kinds
<1>2. UNCHANGED <<settings, link, closed, reader, handles, reply>>
    BY DEF MakesCall, CallFromTask, CallForId, CallFromReader,
           CallInBackground
<1>3. TypeOK /\ ReaderBlocked /\ MethodsInv /\ FramesInv
    BY DEF Inv
<1>4. /\ status[c] = "unused"
      /\ caller' = [caller EXCEPT ![c] = p]
      /\ kind' = [kind EXCEPT ![c] = k]
      /\ status' = [status EXCEPT ![c] = "waiting"]
      /\ inbox' = [inbox EXCEPT ![Other(p)] = Append(@, Request(c))]
    BY <1>1 DEF Make, IsNext
<1>5. /\ \A d \in Calls : d # c => caller'[d] = caller[d] /\ kind'[d] = kind[d]
                                     /\ status'[d] = status[d]
      /\ caller'[c] = p /\ kind'[c] = k /\ status'[c] = "waiting"
      /\ inbox'[p] = inbox[p]
      /\ inbox'[Other(p)] = Append(inbox[Other(p)], Request(c))
    BY <1>3, <1>4 DEF TypeOK
<1>6. \A q \in Peers : Kept(q)
    BY <1>2, <1>4, <1>5 DEF Kept
<1>7. /\ inbox'[p] \in Seq(Frames)
      /\ InboxOK(p, inbox[p])' /\ Distinct(inbox[p])'
    BY <1>5, <1>6, InboxShrinks
<1>8. FrameOK(Other(p), Request(c))'
    <2>1. reply[c] = "none"
        BY <1>3, <1>4 DEF FramesInv
    <2>2. handles[Other(p)] # c
        BY <1>3, <1>4 DEF MethodsInv
    <2>3. /\ Request(c) \in Frames /\ Request(c).call = c
          /\ Request(c).type = "request"
        BY NewFrames
    <2> QED BY <2>1, <2>2, <2>3, <1>2, <1>5 DEF FrameOK
<1>9. /\ inbox'[Other(p)] \in Seq(Frames)
      /\ InboxOK(Other(p), inbox[Other(p)])' /\ Distinct(inbox[Other(p)])'
    <2>1. /\ Request(c) \in Frames /\ Request(c).call = c
        BY NewFrames
    <2> QED BY <2>1, <1>4, <1>5, <1>6, <1>8, InboxGrows
<1>10. \A q \in Peers : /\ inbox'[q] \in Seq(Frames)
                        /\ InboxOK(q, inbox[q])' /\ Distinct(inbox[q])'
    <2> TAKE q \in Peers
    <2>1. CASE q = p
        BY <2>1, <1>7
    <2>2. CASE q = Other(p)
        BY <2>2, <1>9
    <2> QED BY <2>1, <2>2
<1>11. TypeOK'
    <2>1. inbox' \in [Peers -> Seq(Frames)]
        BY <1>3, <1>4, <1>10 DEF TypeOK
    <2>0. awaits \in [Peers -> Calls \cup {NoCall}]
        BY <1>3 DEF TypeOK
    <2>2. awaits' \in [Peers -> Calls \cup {NoCall}]
        <3>1. CASE k = "nested"
            BY <3>1, <2>0, <1>1
        <3>2. CASE k # "nested"
            BY <3>2, <2>0, <1>1
        <3> QED BY <3>1, <3>2
    <2>3. /\ caller' \in [Calls -> Peers] /\ kind' \in [Calls -> Kinds]
          /\ status' \in [Calls -> {"unused", "waiting", "answered", "failed"}]
        BY <1>3, <1>4 DEF TypeOK
    <2> QED BY <2>1, <2>2, <2>3, <1>2, <1>3 DEF TypeOK
<1>12. ReaderBlocked'
    <2>1. \A q \in Peers : awaits'[q] # NoCall => reader'[q] \in {"handling", "callbacks"}
        BY <1>1, <1>2, <1>3 DEF ReaderBlocked, TypeOK
    <2>2. ASSUME NEW d \in Calls, kind'[d] = "nested", status'[d] = "waiting"
          PROVE  awaits'[caller'[d]] = d
        <3>1. CASE d = c
            BY <3>1, <2>2, <1>1, <1>3, <1>5 DEF TypeOK
        <3>2. CASE d # c
            <4>1. awaits[caller[d]] = d /\ caller'[d] = caller[d] /\ d # NoCall
                  /\ caller[d] \in Peers
                BY <3>2, <2>2, <1>3, <1>5 DEF ReaderBlocked, TypeOK
            <4> QED BY <4>1, <1>1, <1>3 DEF TypeOK
        <3> QED BY <3>1, <3>2
    <2>3. NestedCallsStarve'
        BY <1>3, <1>5 DEF ReaderBlocked, NestedCallsStarve
    <2> QED BY <2>1, <2>2, <2>3 DEF ReaderBlocked
<1>13. MethodsInv'
    <2>1. \A q \in Peers : handles[q] \in Calls \cup {NoCall}
        BY <1>3 DEF TypeOK
    <2>2. \A q \in Peers : handles[q] # c
        BY <1>3, <1>4 DEF MethodsInv
    <2> QED BY <2>1, <2>2, <1>2, <1>3, <1>5 DEF MethodsInv
<1>14. FramesInv'
    <2>1. AnswersAreReal'
        BY <1>2, <1>3, <1>5 DEF FramesInv, AnswersAreReal
    <2>2. \A d \in Calls : status'[d] = "unused" => reply'[d] = "none"
        BY <1>2, <1>3, <1>5 DEF FramesInv
    <2> QED BY <2>1, <2>2, <1>10, FramesFromInboxes
<1> QED BY <1>11, <1>12, <1>13, <1>14 DEF Inv

(* A wait ends, and nothing is received or made.                           *)
LEMMA EndStep ==
    ASSUME Inv, NEW c \in Calls, CallEnds(c)
    PROVE  Inv'
<1> USE CallFacts
<1>1. /\ status' = [status EXCEPT ![c] = "failed"] /\ status[c] = "waiting"
      /\ UNCHANGED <<settings, link, closed, inbox, reader, handles, awaits,
                     caller, kind, reply>>
    BY DEF CallEnds, CallTimesOut, CallFails
<1>2. TypeOK /\ ReaderBlocked /\ MethodsInv /\ FramesInv
    BY DEF Inv
<1>3. /\ \A d \in Calls : d # c => status'[d] = status[d]
      /\ status'[c] = "failed"
    BY <1>1, <1>2 DEF TypeOK
<1>4. \A q \in Peers : Kept(q)
    BY <1>1, <1>3 DEF Kept
<1>5. \A q \in Peers : /\ inbox'[q] \in Seq(Frames)
                       /\ InboxOK(q, inbox[q])' /\ Distinct(inbox[q])'
    BY <1>1, <1>4, InboxShrinks
<1>6. TypeOK'
    BY <1>1, <1>2 DEF TypeOK
<1>7. ReaderBlocked'
    BY <1>1, <1>2, <1>3 DEF ReaderBlocked, NestedCallsStarve
<1>8. MethodsInv'
    BY <1>1, <1>2, <1>3 DEF MethodsInv, TypeOK
<1>9. FramesInv'
    <2>1. AnswersAreReal' /\ \A d \in Calls : status'[d] = "unused" => reply'[d] = "none"
        BY <1>1, <1>2, <1>3 DEF FramesInv, AnswersAreReal
    <2> QED BY <2>1, <1>5, FramesFromInboxes
<1> QED BY <1>6, <1>7, <1>8, <1>9 DEF Inv

(* Steps of the environment, and steps that only move a reader.            *)
LEMMA QuietStep ==
    ASSUME Inv, NEW p \in Peers,
           \/ BeginLoop(p) \/ Resume(p) \/ NoticeEnd(p) \/ FrameFails(p)
           \/ Close(p) \/ Expire(p) \/ Break \/ UNCHANGED vars
    PROVE  Inv'
<1> USE CallFacts, PeerFacts
<1>1. UNCHANGED <<settings, handles, caller, kind, status, reply>>
    BY DEF BeginLoop, Resume, NoticeEnd, FrameFails, Close, Expire, Break, vars
<1>2. TypeOK /\ ReaderBlocked /\ MethodsInv /\ FramesInv
    BY DEF Inv
<1>3. link' \in {"up", "down"} /\ closed' \in [Peers -> BOOLEAN]
    <2>1. CASE NoticeEnd(p)
        BY <2>1, <1>2 DEF NoticeEnd, EndReader, TypeOK
    <2>2. CASE FrameFails(p)
        BY <2>2, <1>2 DEF FrameFails, FailReader, TypeOK
    <2> QED BY <2>1, <2>2, <1>2
            DEF TypeOK, BeginLoop, Resume, Close, Expire, Break, vars
<1>4. \/ reader' = reader
      \/ /\ awaits[p] = NoCall /\ awaits' = awaits /\ reader[p] # "handling"
         /\ \E to \in {"receiving", "ended", "failed"} : reader' = [reader EXCEPT ![p] = to]
    <2>1. CASE BeginLoop(p)
        BY <2>1 DEF BeginLoop
    <2>2. CASE NoticeEnd(p)
        <3>1. awaits[p] = NoCall
            BY <2>2, <1>2 DEF NoticeEnd, ReaderBlocked
        <3> QED BY <3>1, <2>2 DEF NoticeEnd, EndReader
    <2>3. CASE FrameFails(p)
        <3>1. awaits[p] = NoCall
            BY <2>3, <1>2 DEF FrameFails, Receives, ReaderBlocked
        <3> QED BY <3>1, <2>3 DEF FrameFails, FailReader, Receives
    <2>4. CASE Resume(p) \/ Close(p) \/ Expire(p) \/ Break \/ UNCHANGED vars
        BY <2>4 DEF Resume, Close, Expire, Break, vars
    <2> QED BY <2>1, <2>2, <2>3, <2>4
<1>5. \/ awaits' = awaits
      \/ /\ awaits' = [awaits EXCEPT ![p] = NoCall] /\ reader' = reader
         /\ status[awaits[p]] # "waiting"
    BY DEF BeginLoop, Resume, NoticeEnd, FrameFails, Close, Expire, Break, vars
<1>6. \A q \in Peers : Kept(q)
    BY <1>1 DEF Kept
<1>7. /\ DOMAIN inbox' = Peers /\ inbox' = [q \in Peers |-> inbox'[q]]
      /\ \A q \in Peers :
          \/ inbox'[q] = inbox[q]
          \/ inbox'[q] = <<>>
          \/ \E n \in 0 .. Len(inbox[q]) : inbox'[q] = SubSeq(inbox[q], 1, n)
    <2>1. CASE Break
        <3>1. PICK n \in 0 .. Len(inbox["client"]), m \in 0 .. Len(inbox["server"]) :
                inbox' = [client |-> SubSeq(inbox["client"], 1, n),
                          server |-> SubSeq(inbox["server"], 1, m)]
            BY <2>1 DEF Break
        <3>2. DOMAIN inbox' = {"client", "server"}
              /\ inbox' = [q \in {"client", "server"} |-> inbox'[q]]
            BY <3>1
        <3>3. /\ inbox'["client"] = SubSeq(inbox["client"], 1, n)
              /\ inbox'["server"] = SubSeq(inbox["server"], 1, m)
            BY <3>1
        <3> QED BY <3>2, <3>3 DEF Peers
    <2>2. CASE inbox' = inbox
        BY <2>2, <1>2 DEF TypeOK
    <2>3. CASE NoticeEnd(p)
        <3>1. inbox' = [inbox EXCEPT ![p] = <<>>]
            BY <2>3 DEF NoticeEnd, EndReader
        <3>2. inbox' = [q \in Peers |-> IF q = p THEN <<>> ELSE inbox[q]]
            BY <3>1, <1>2 DEF TypeOK
        <3> QED BY <3>2
    <2> QED BY <2>1, <2>2, <2>3
            DEF BeginLoop, Resume, FrameFails, FailReader, Close, Expire, vars
<1>8. \A q \in Peers : /\ inbox'[q] \in Seq(Frames)
                       /\ InboxOK(q, inbox[q])' /\ Distinct(inbox[q])'
    BY <1>6, <1>7, InboxShrinks
<1>9. TypeOK'
    <2>1. inbox' \in [Peers -> Seq(Frames)]
        BY <1>7, <1>8
    <2>2. reader' \in [Peers -> Places]
        <3>1. CASE reader' = reader
            BY <3>1, <1>2 DEF TypeOK
        <3>2. CASE reader' # reader
            BY <3>2, <1>2, <1>4, PlaceFacts DEF Places
        <3> QED BY <3>1, <3>2
    <2>3. awaits' \in [Peers -> Calls \cup {NoCall}]
        BY <1>2, <1>5 DEF TypeOK
    <2> QED BY <2>1, <2>2, <2>3, <1>1, <1>2, <1>3 DEF TypeOK
<1>10. ReaderBlocked'
    <2>1. \A q \in Peers : awaits'[q] # NoCall => reader'[q] \in {"handling", "callbacks"}
        BY <1>2, <1>4, <1>5 DEF ReaderBlocked, TypeOK
    <2>2. ASSUME NEW c \in Calls, kind'[c] = "nested", status'[c] = "waiting"
          PROVE  awaits'[caller'[c]] = c
        <3>1. awaits[caller[c]] = c /\ caller'[c] = caller[c]
              /\ caller[c] \in Peers /\ status[c] = "waiting"
            BY <2>2, <1>1, <1>2 DEF ReaderBlocked, TypeOK
        <3> QED BY <3>1, <1>2, <1>5 DEF TypeOK
    <2>3. NestedCallsStarve'
        BY <1>1, <1>2 DEF ReaderBlocked, NestedCallsStarve
    <2> QED BY <2>1, <2>2, <2>3 DEF ReaderBlocked
<1>11. MethodsInv'
    BY <1>1, <1>2, <1>4 DEF MethodsInv, TypeOK
<1>12. FramesInv'
    <2>1. AnswersAreReal' /\ \A c \in Calls : status'[c] = "unused" => reply'[c] = "none"
        BY <1>1, <1>2 DEF FramesInv, AnswersAreReal
    <2> QED BY <2>1, <1>8, FramesFromInboxes
<1> QED BY <1>9, <1>10, <1>11, <1>12 DEF Inv


(* A request or an answer is received.                                     *)
LEMMA ReceiveStep ==
    ASSUME Inv, NEW p \in Peers,
           StartMethod(p) \/ TakeAnswer(p) \/ BounceAnswer(p)
    PROVE  Inv'
<1> USE CallFacts, PeerFacts
<1>1. TypeOK /\ ReaderBlocked /\ MethodsInv /\ FramesInv
    BY DEF Inv
<1>2. /\ reader[p] = "receiving" /\ inbox[p] # <<>> /\ awaits[p] = NoCall
      /\ UNCHANGED <<settings, awaits, caller, kind, reply>>
    BY <1>1 DEF StartMethod, TakeAnswer, BounceAnswer, Receives, ReaderBlocked
<1>3. PICK f : f = Head(inbox[p])
    OBVIOUS
<1>4. /\ inbox[p] \in Seq(Frames) /\ InboxOK(p, inbox[p]) /\ Distinct(inbox[p])
    BY <1>1 DEF TypeOK, FramesInv
<1>5. PICK s : s = inbox[p]
    OBVIOUS
<1>6. /\ f \in Frames /\ FrameOK(p, f) /\ f.call \in Calls
      /\ Tail(s) \in Seq(Frames) /\ InboxOK(p, Tail(s)) /\ Distinct(Tail(s))
      /\ f.type = "request" =>
            \A i \in 1 .. Len(Tail(s)) :
                Tail(s)[i].type = "request" => Tail(s)[i].call # f.call
    <2>1. s \in Seq(Frames) /\ s # <<>> /\ InboxOK(p, s) /\ Distinct(s)
          /\ f = Head(s)
        BY <1>2, <1>3, <1>4, <1>5
    <2> QED BY <2>1, TailKeeps, FrameFacts
<1>7. CASE StartMethod(p)
    <2>1. /\ f.type = "request" /\ UNCHANGED <<link, closed, status>>
          /\ inbox' = [inbox EXCEPT ![p] = Tail(inbox[p])]
          /\ reader' = [reader EXCEPT ![p] = "handling"]
          /\ handles' = [handles EXCEPT ![p] = f.call]
        BY <1>3, <1>7 DEF StartMethod
    <2>2. /\ inbox'[p] = Tail(s) /\ inbox'[Other(p)] = inbox[Other(p)]
          /\ handles'[p] = f.call /\ handles'[Other(p)] = handles[Other(p)]
        BY <2>1, <1>1, <1>5 DEF TypeOK
    <2>3. /\ inbox'[Other(p)] \in Seq(Frames)
          /\ InboxOK(Other(p), inbox[Other(p)])' /\ Distinct(inbox[Other(p)])'
        <3>1. Kept(Other(p))
            BY <2>1, <2>2, <1>2 DEF Kept
        <3> QED BY <3>1, <2>2, InboxShrinks
    <2>4. PICK t : t = Tail(s)
        OBVIOUS
    <2>5. InboxOK(p, t)'
        <3>1. ASSUME NEW i \in 1 .. Len(t) PROVE FrameOK(p, t[i])'
            <4>1. FrameOK(p, t[i]) /\ t[i].type = "request" => t[i].call # f.call
                BY <2>4, <1>6, <2>1 DEF InboxOK
            <4>2. FrameOK(p, t[i])
                BY <2>4, <1>6 DEF InboxOK
            <4> QED BY <4>1, <4>2, <2>1, <2>2, <1>2 DEF FrameOK
        <3> QED BY <3>1 DEF InboxOK
    <2>6. /\ inbox'[p] \in Seq(Frames)
          /\ InboxOK(p, inbox[p])' /\ Distinct(inbox[p])'
        BY <2>2, <2>4, <2>5, <1>6 DEF InboxOK, Distinct
    <2>7. \A q \in Peers : /\ inbox'[q] \in Seq(Frames)
                           /\ InboxOK(q, inbox[q])' /\ Distinct(inbox[q])'
        <3> TAKE q \in Peers
        <3>1. CASE q = p
            BY <3>1, <2>6
        <3>2. CASE q = Other(p)
            BY <3>2, <2>3
        <3> QED BY <3>1, <3>2
    <2>8. TypeOK'
        <3>1. inbox' \in [Peers -> Seq(Frames)]
            BY <2>1, <2>7, <1>1 DEF TypeOK
        <3>2. /\ reader' \in [Peers -> Places]
              /\ handles' \in [Peers -> Calls \cup {NoCall}]
            BY <2>1, <1>1, <1>6 DEF TypeOK, Places
        <3> QED BY <3>1, <3>2, <2>1, <1>1, <1>2 DEF TypeOK
    <2>9. ReaderBlocked'
        BY <2>1, <1>1, <1>2 DEF ReaderBlocked, NestedCallsStarve, TypeOK
    <2>10. MethodsInv'
        <3>1. /\ caller[f.call] = Other(p) /\ reply[f.call] = "none"
              /\ status[f.call] # "unused" /\ f.call # NoCall
            BY <2>1, <1>6 DEF FrameOK
        <3> QED BY <3>1, <2>1, <1>1, <1>2 DEF MethodsInv, TypeOK
    <2>11. FramesInv'
        <3>1. AnswersAreReal' /\ \A c \in Calls : status'[c] = "unused" => reply'[c] = "none"
            BY <2>1, <1>1, <1>2 DEF FramesInv, AnswersAreReal
        <3> QED BY <3>1, <2>7, FramesFromInboxes
    <2> QED BY <2>8, <2>9, <2>10, <2>11 DEF Inv
<1>8. CASE TakeAnswer(p)
    <2>1. /\ f.type = "answer" /\ f.body # "empty"
          /\ UNCHANGED <<link, closed, reader, handles>>
          /\ inbox' = [inbox EXCEPT ![p] = Tail(inbox[p])]
          /\ status' = IF Awaited(p, f.call)
                       THEN [status EXCEPT ![f.call] = "answered"] ELSE status
        BY <1>3, <1>8 DEF TakeAnswer, Bounced
    <2>2. /\ \A c \in Calls : c # f.call => status'[c] = status[c]
          /\ Awaited(p, f.call) => status'[f.call] = "answered"
          /\ ~Awaited(p, f.call) => status'[f.call] = status[f.call]
        <3>1. /\ status \in [Calls -> {"unused", "waiting", "answered", "failed"}]
              /\ f.call \in Calls
            BY <1>1, <1>6 DEF TypeOK
        <3>2. CASE Awaited(p, f.call)
            <4>1. status' = [status EXCEPT ![f.call] = "answered"]
                BY <2>1, <3>2
            <4> QED BY <4>1, <3>1, <3>2
        <3>3. CASE ~Awaited(p, f.call)
            <4>1. status' = status
                BY <2>1, <3>3
            <4> QED BY <4>1, <3>3
        <3> QED BY <3>2, <3>3
    <2>3. \A q \in Peers : Kept(q)
        <3>1. \A c \in Calls : status[c] # "unused" => status'[c] # "unused"
            BY <2>2
        <3> QED BY <3>1, <2>1, <1>2 DEF Kept
    <2>4. \A q \in Peers : /\ inbox'[q] \in Seq(Frames)
                           /\ InboxOK(q, inbox[q])' /\ Distinct(inbox[q])'
        <3> TAKE q \in Peers
        <3>1. inbox'[q] = inbox[q] \/ (inbox[q] # <<>> /\ inbox'[q] = Tail(inbox[q]))
            BY <2>1, <1>1, <1>2 DEF TypeOK
        <3> QED BY <3>1, <2>3, InboxShrinks
    <2>5. TypeOK'
        <3>1. inbox' \in [Peers -> Seq(Frames)]
            BY <2>1, <2>4, <1>1 DEF TypeOK
        <3>2. status' \in [Calls -> {"unused", "waiting", "answered", "failed"}]
            BY <2>1, <1>1 DEF TypeOK
        <3> QED BY <3>1, <3>2, <2>1, <1>1, <1>2 DEF TypeOK
    (* The caller of a nested call does not receive while it waits.        *)
    <2>6. Awaited(p, f.call) => kind[f.call] # "nested"
        BY <1>1, <1>2, <1>6 DEF Awaited, ReaderBlocked
    <2>7. ReaderBlocked'
        <3>1. NestedCallsStarve'
            BY <2>2, <2>6, <1>1, <1>2 DEF ReaderBlocked, NestedCallsStarve
        <3>2. \A c \in Calls : status'[c] = "waiting" => status[c] = "waiting"
            BY <2>2
        <3> QED BY <3>1, <3>2, <2>1, <1>1, <1>2 DEF ReaderBlocked
    <2>8. MethodsInv'
        <3>1. \A c \in Calls : status[c] # "unused" => status'[c] # "unused"
            BY <2>2
        <3>2. \A q \in Peers : handles[q] \in Calls \cup {NoCall}
            BY <1>1 DEF TypeOK
        <3> QED BY <3>1, <3>2, <2>1, <1>1, <1>2 DEF MethodsInv
    <2>9. FramesInv'
        <3>1. Awaited(p, f.call) => reply[f.call] = "answer"
            <4>1. f.body = "answer"
                BY <2>1, <1>6, FrameFacts DEF Bodies, Replies
            <4> QED BY <4>1, <2>1, <1>6 DEF FrameOK, Awaited
        <3>2. AnswersAreReal'
            BY <3>1, <2>2, <1>1, <1>2 DEF FramesInv, AnswersAreReal
        <3>3. \A c \in Calls : status'[c] = "unused" => reply'[c] = "none"
            BY <2>2, <1>1, <1>2 DEF FramesInv
        <3> QED BY <3>2, <3>3, <2>4, FramesFromInboxes
    <2> QED BY <2>5, <2>7, <2>8, <2>9 DEF Inv
<1>9. CASE BounceAnswer(p)
    <2>1. /\ f.type = "answer" /\ f.body = "empty" /\ UNCHANGED <<handles, status>>
          /\ caller[f.call] = p /\ reply[f.call] # "none"
          /\ status[f.call] # "unused"
        BY <1>3, <1>6, <1>9 DEF BounceAnswer, Bounced, FrameOK
    <2>2. \/ /\ inbox' = [inbox EXCEPT ![p] = Tail(inbox[p]),
                   ![Other(p)] = Append(inbox[Other(p)], Answer(f.call, "answer"))]
             /\ UNCHANGED <<reader, closed, link>>
          \/ EndReader(p)
          \/ FailReader(p)
        BY <1>3, <1>9 DEF BounceAnswer
    <2>3. /\ link' \in {"up", "down"} /\ closed' \in [Peers -> BOOLEAN]
          /\ \/ reader' = reader
             \/ \E to \in {"ended", "failed"} : reader' = [reader EXCEPT ![p] = to]
        BY <2>2, <1>1 DEF EndReader, FailReader, TypeOK
    <2>4. \A q \in Peers : Kept(q)
        BY <2>1, <1>2 DEF Kept
    <2>5. DOMAIN inbox' = Peers /\ inbox' = [q \in Peers |-> inbox'[q]]
        BY <2>2, <1>1 DEF EndReader, FailReader, TypeOK
    <2>6. \/ /\ inbox'[p] = Tail(inbox[p])
             /\ inbox'[Other(p)] = Append(inbox[Other(p)], Answer(f.call, "answer"))
          \/ inbox'[p] \in {<<>>, inbox[p]} /\ inbox'[Other(p)] = inbox[Other(p)]
        BY <2>2, <1>1 DEF EndReader, FailReader, TypeOK
    <2>7. /\ inbox'[p] \in Seq(Frames)
          /\ InboxOK(p, inbox[p])' /\ Distinct(inbox[p])'
        BY <2>4, <2>6, <1>2, InboxShrinks
    <2>8. /\ inbox'[Other(p)] \in Seq(Frames)
          /\ InboxOK(Other(p), inbox[Other(p)])' /\ Distinct(inbox[Other(p)])'
        <3> DEFINE g == Answer(f.call, "answer")
        <3>1. g \in Frames /\ g.type = "answer" /\ g.call = f.call /\ g.body = "answer"
            BY <1>6, NewFrames DEF Bodies, Replies
        <3>2. FrameOK(Other(p), g)'
            BY <3>1, <2>1, <1>2 DEF FrameOK
        <3>3. CASE inbox'[Other(p)] = Append(inbox[Other(p)], g)
            <4> HIDE DEF g
            <4> QED BY <3>1, <3>2, <3>3, <2>4, InboxGrows
        <3>4. CASE inbox'[Other(p)] = inbox[Other(p)]
            BY <3>4, <2>4, InboxShrinks
        <3> QED BY <3>3, <3>4, <2>6
    <2>9. \A q \in Peers : /\ inbox'[q] \in Seq(Frames)
                           /\ InboxOK(q, inbox[q])' /\ Distinct(inbox[q])'
        <3> TAKE q \in Peers
        <3>1. CASE q = p
            BY <3>1, <2>7
        <3>2. CASE q = Other(p)
            BY <3>2, <2>8
        <3> QED BY <3>1, <3>2
    <2>10. TypeOK'
        <3>1. inbox' \in [Peers -> Seq(Frames)]
            BY <2>5, <2>9
        <3>2. reader' \in [Peers -> Places]
            <4>1. CASE reader' = reader
                BY <4>1, <1>1 DEF TypeOK
            <4>2. CASE reader' # reader
                BY <4>2, <2>3, <1>1, PlaceFacts DEF Places
            <4> QED BY <4>1, <4>2
        <3> QED BY <3>1, <3>2, <2>1, <2>3, <1>1, <1>2 DEF TypeOK
    <2>11. ReaderBlocked'
        BY <2>1, <2>3, <1>1, <1>2 DEF ReaderBlocked, NestedCallsStarve, TypeOK
    <2>12. MethodsInv'
        BY <2>1, <2>3, <1>1, <1>2 DEF MethodsInv, TypeOK
    <2>13. FramesInv'
        <3>1. AnswersAreReal' /\ \A c \in Calls : status'[c] = "unused" => reply'[c] = "none"
            BY <2>1, <1>1, <1>2 DEF FramesInv, AnswersAreReal
        <3> QED BY <3>1, <2>9, FramesFromInboxes
    <2> QED BY <2>10, <2>11, <2>12, <2>13 DEF Inv
<1> QED BY <1>7, <1>8, <1>9

(* A method ends.                                                          *)
LEMMA FinishStep ==
    ASSUME Inv, NEW p \in Peers, NEW how \in Replies, FinishMethod(p, how)
    PROVE  Inv'
<1> USE CallFacts, PeerFacts
<1>1. TypeOK /\ ReaderBlocked /\ MethodsInv /\ FramesInv
    BY DEF Inv
<1>2. PICK c : c = handles[p]
    OBVIOUS
<1>3. /\ c \in Calls /\ c # NoCall /\ caller[c] = Other(p)
      /\ reply[c] = "none" /\ status[c] # "unused"
    BY <1>1, <1>2 DEF FinishMethod, MethodsInv, TypeOK
<1>4. /\ reader[p] = "handling" /\ awaits[p] = NoCall
      /\ reply' = [reply EXCEPT ![c] = how]
      /\ handles' = [handles EXCEPT ![p] = NoCall]
      /\ UNCHANGED <<settings, awaits, caller, kind, status>>
    BY <1>2 DEF FinishMethod
<1>5. \/ /\ UNCHANGED inbox
      \/ /\ how \in Bodies
         /\ inbox' = [inbox EXCEPT ![Other(p)] = Append(inbox[Other(p)], Answer(c, how))]
      \/ inbox' = [inbox EXCEPT ![p] = <<>>]
    BY <1>2 DEF FinishMethod, EndReader, FailReader, Silent, Bodies
<1>6. /\ link' \in {"up", "down"} /\ closed' \in [Peers -> BOOLEAN]
      /\ \E to \in {"receiving", "ended", "failed"} :
            reader' = [reader EXCEPT ![p] = to]
    <2>1. CASE EndReader(p)
        BY <2>1, <1>1 DEF EndReader, TypeOK
    <2>2. CASE FailReader(p)
        BY <2>2, <1>1 DEF FailReader, TypeOK
    <2> QED BY <2>1, <2>2, <1>1 DEF FinishMethod, TypeOK
<1>7. /\ \A d \in Calls : d # c => reply'[d] = reply[d]
      /\ reply'[c] = how /\ how # "none"
      /\ \A q \in Peers : q # p => handles'[q] = handles[q]
      /\ handles'[p] = NoCall
    BY <1>1, <1>3, <1>4 DEF TypeOK, Replies
(* No frame mentions the call: it has no reply, and its request was taken. *)
<1>8. ASSUME NEW q \in Peers, NEW f, FrameOK(q, f) PROVE FrameOK(q, f)'
    <2>1. f.call \in Calls /\ f.type \in {"request", "answer"}
        BY <1>8, FrameFacts DEF FrameOK
    <2>2. f.call # c
        <3>1. CASE f.type = "answer"
            BY <3>1, <1>3, <1>8 DEF FrameOK
        <3>2. CASE f.type = "request"
            <4>1. CASE q = p
                BY <4>1, <3>2, <1>2, <1>8 DEF FrameOK
            <4>2. CASE q = Other(p)
                BY <4>2, <3>2, <1>3, <1>8 DEF FrameOK
            <4> QED BY <4>1, <4>2
        <3> QED BY <3>1, <3>2, <2>1
    <2> QED BY <2>1, <2>2, <1>4, <1>7, <1>8 DEF FrameOK
<1>9. \A q \in Peers : \A s : InboxOK(q, s) => InboxOK(q, s)'
    BY <1>8 DEF InboxOK
<1>10. ASSUME NEW q \in Peers
       PROVE  /\ inbox'[q] \in Seq(Frames)
              /\ InboxOK(q, inbox[q])' /\ Distinct(inbox[q])'
    <2>1. PICK s : s = inbox[q]
        OBVIOUS
    <2>2. /\ s \in Seq(Frames) /\ InboxOK(q, s) /\ Distinct(s)
          /\ InboxOK(q, s)'
        BY <2>1, <1>1, <1>9 DEF TypeOK, FramesInv
    <2>3. CASE inbox'[q] = inbox[q]
        BY <2>1, <2>2, <2>3 DEF InboxOK, Distinct
    <2>4. CASE inbox'[q] = <<>>
        BY <2>4 DEF InboxOK, Distinct
    <2>5. CASE /\ q = Other(p) /\ how \in Bodies
               /\ inbox'[q] = Append(inbox[q], Answer(c, how))
        <3>1. PICK f : f = Answer(c, how)
            OBVIOUS
        <3>2. /\ f \in Frames /\ f.type = "answer" /\ f.call = c /\ f.body = how
            BY <3>1, <2>5, <1>3, NewFrames
        <3>3. FrameOK(q, f)'
            BY <3>2, <2>5, <1>3, <1>4, <1>7 DEF FrameOK
        <3>4. PICK t : t = Append(s, f)
            OBVIOUS
        <3>5. /\ t \in Seq(Frames) /\ Len(s) \in Nat /\ Len(t) = Len(s) + 1
              /\ \A i \in 1 .. Len(s) : t[i] = s[i]
              /\ t[Len(s) + 1] = f
              /\ \A i \in 1 .. Len(t) : i \in 1 .. Len(s) \/ i = Len(s) + 1
            BY <3>2, <3>4, <2>2
        <3>6. InboxOK(q, t)'
            BY <3>3, <3>5, <2>2 DEF InboxOK
        <3>7. Distinct(t)
            <4>1. f.type # "request"
                BY <3>2
            <4> QED BY <4>1, <3>5, <2>2 DEF Distinct
        <3>8. t = inbox'[q]
            BY <3>1, <3>4, <2>1, <2>5
        <3> QED BY <3>5, <3>6, <3>7, <3>8 DEF InboxOK, Distinct
    <2>6. inbox \in [Peers -> Seq(Frames)]
        BY <1>1 DEF TypeOK
    <2>7. \/ inbox'[q] = inbox[q] \/ inbox'[q] = <<>>
          \/ /\ q = Other(p) /\ how \in Bodies
             /\ inbox'[q] = Append(inbox[q], Answer(c, how))
        BY <2>6, <1>5
    <2> QED BY <2>3, <2>4, <2>5, <2>7
<1>11. TypeOK'
    <2>0. DOMAIN inbox' = Peers /\ inbox' = [q \in Peers |-> inbox'[q]]
        BY <1>1, <1>5 DEF TypeOK
    <2>1. inbox' \in [Peers -> Seq(Frames)]
        BY <2>0, <1>10
    <2>2. /\ reader' \in [Peers -> Places]
          /\ handles' \in [Peers -> Calls \cup {NoCall}]
        BY <1>1, <1>4, <1>6 DEF TypeOK, Places
    <2>3. reply' \in [Calls -> Replies \cup {"none"}]
        BY <1>1, <1>4 DEF TypeOK
    <2> QED BY <2>1, <2>2, <2>3, <1>1, <1>4, <1>6 DEF TypeOK
<1>12. ReaderBlocked'
    BY <1>1, <1>4, <1>6 DEF ReaderBlocked, NestedCallsStarve, TypeOK
<1>13. MethodsInv'
    <2>1. ASSUME NEW q \in Peers
          PROVE  /\ reader'[q] = "handling" <=> handles'[q] # NoCall
                 /\ handles'[q] # NoCall =>
                       /\ caller'[handles'[q]] = Other(q)
                       /\ reply'[handles'[q]] = "none"
                       /\ status'[handles'[q]] # "unused"
        <3>1. CASE q = p
            BY <3>1, <1>1, <1>6, <1>7 DEF TypeOK
        <3>2. CASE q # p
            <4>1. handles'[q] = handles[q] /\ reader'[q] = reader[q]
                BY <3>2, <1>1, <1>6, <1>7 DEF TypeOK
            <4>2. handles[q] # c
                BY <3>2, <1>1, <1>3 DEF MethodsInv
            <4>3. handles[q] \in Calls \cup {NoCall}
                BY <1>1 DEF TypeOK
            <4> QED BY <4>1, <4>2, <4>3, <1>1, <1>4, <1>7 DEF MethodsInv
        <3> QED BY <3>1, <3>2
    <2> QED BY <2>1 DEF MethodsInv
<1>14. FramesInv'
    <2>1. AnswersAreReal'
        BY <1>1, <1>3, <1>4, <1>7 DEF FramesInv, AnswersAreReal
    <2>2. \A d \in Calls : status'[d] = "unused" => reply'[d] = "none"
        BY <1>1, <1>3, <1>4, <1>7 DEF FramesInv
    <2> QED BY <2>1, <2>2, <1>10, FramesFromInboxes
<1> QED BY <1>11, <1>12, <1>13, <1>14 DEF Inv

LEMMA StepInv == Inv /\ [Next]_vars => Inv'
<1> SUFFICES ASSUME Inv, [Next]_vars PROVE Inv'
    OBVIOUS
<1>1. ASSUME NEW p \in Peers, NEW c \in Calls, MakesCall(p, c) PROVE Inv'
    BY <1>1, CallStep
<1>2. ASSUME NEW p \in Peers, ReaderStep(p) PROVE Inv'
    <2>1. CASE StartMethod(p) \/ TakeAnswer(p) \/ BounceAnswer(p)
        BY <2>1, ReceiveStep
    <2>2. CASE BeginLoop(p) \/ Resume(p) \/ NoticeEnd(p) \/ FrameFails(p)
        BY <2>2, QuietStep
    <2>3. CASE \E how \in Replies : FinishMethod(p, how)
        BY <2>3, FinishStep
    <2> QED BY <1>2, <2>1, <2>2, <2>3 DEF ReaderStep
<1>3. ASSUME NEW c \in Calls, CallEnds(c) PROVE Inv'
    BY <1>3, EndStep
<1>4. ASSUME NEW p \in Peers, Close(p) \/ Expire(p) \/ Break \/ UNCHANGED vars
      PROVE  Inv'
    BY <1>4, QuietStep
<1>5. "client" \in Peers
    BY DEF Peers
<1> QED BY <1>1, <1>2, <1>3, <1>4, <1>5 DEF Next

LEMMA Invariance == Spec => []Inv
BY InitInv, StepInv, PTL DEF Spec

-----------------------------------------------------------------------------
(* Where the calls are.                                                    *)

InTransit(p, f) == \E i \in 1 .. Len(inbox[p]) : inbox[p][i] = f

(* While the connection is up and both readers are well, a call that waits *)
(* is a request on its way, or its method runs, or its answer is on its    *)
(* way, or none is sent.                                                   *)
Somewhere(c) ==
    \/ link = "down"
    \/ \E p \in Peers : reader[p] = "failed"
    \/ /\ reply[c] = "none"
       /\ \/ InTransit(Other(caller[c]), Request(c))
          \/ handles[Other(caller[c])] = c
    \/ reply[c] = "answer" /\ InTransit(caller[c], Answer(c, "answer"))
    \/ reply[c] \in {"empty", "noResponse"}

(* A reader that ended found the connection gone, and closed its channel   *)
(* unless the client connects again.                                       *)
EndsInv ==
    \A p \in Peers :
        reader[p] = "ended" => link = "down" /\ (closed[p] \/ Reconnects(p))

WaitsInv == \A c \in Calls : status[c] = "waiting" => Somewhere(c)

LEMMA EndsStep ==
    ASSUME Inv, EndsInv, [Next]_vars
    PROVE  EndsInv'
<1> USE PeerFacts
<1>1. TypeOK
    BY DEF Inv
(* A channel is not opened again, and the connection does not come back.   *)
<1>2. /\ \A q \in Peers : closed[q] => closed'[q]
      /\ link = "down" => link' = "down"
      /\ UNCHANGED settings
    <2>1. ASSUME NEW p \in Peers, EndReader(p) \/ FailReader(p)
          PROVE  /\ \A q \in Peers : closed[q] => closed'[q]
                 /\ link = "down" => link' = "down"
        BY <2>1, <1>1 DEF EndReader, FailReader, TypeOK
    <2>2. ASSUME NEW p \in Peers, ReaderStep(p)
          PROVE  /\ UNCHANGED settings
                 /\ UNCHANGED <<closed, link>> \/ EndReader(p) \/ FailReader(p)
        BY <2>2 DEF ReaderStep, BeginLoop, StartMethod, TakeAnswer, BounceAnswer,
                    Resume, FinishMethod, NoticeEnd, FrameFails
    <2>3. ASSUME NEW p \in Peers, Close(p) \/ Expire(p)
          PROVE  /\ UNCHANGED settings
                 /\ \A q \in Peers : closed[q] => closed'[q]
                 /\ link = "down" => link' = "down"
        BY <2>3, <1>1 DEF Close, Expire, TypeOK
    <2>4. ASSUME NEW p \in Peers, NEW c \in Calls, MakesCall(p, c)
          PROVE  UNCHANGED <<settings, closed, link>>
        BY <2>4 DEF MakesCall, CallFromTask, CallForId, CallFromReader,
                    CallInBackground
    <2>5. ASSUME NEW c \in Calls, CallEnds(c)
          PROVE  UNCHANGED <<settings, closed, link>>
        BY <2>5 DEF CallEnds, CallTimesOut, CallFails
    <2>6. CASE Break
        BY <2>6 DEF Break
    <2>7. CASE UNCHANGED vars
        BY <2>7 DEF vars
    <2> QED BY <2>1, <2>2, <2>3, <2>4, <2>5, <2>6, <2>7 DEF Next
(* Where a reader ends, it ends as EndReader says.                         *)
<1>3. ASSUME NEW q \in Peers, reader'[q] = "ended", reader[q] # "ended"
      PROVE  EndReader(q)
    <2>1. ASSUME NEW p \in Peers, ReaderStep(p)
          PROVE  EndReader(q)
        <3>1. \/ EndReader(p)
              \/ UNCHANGED reader
              \/ \E to \in {"receiving", "handling", "failed"} :
                    reader' = [reader EXCEPT ![p] = to]
            BY <2>1 DEF ReaderStep, BeginLoop, StartMethod, TakeAnswer,
                        BounceAnswer, Resume, FinishMethod, NoticeEnd,
                        FrameFails, FailReader
        <3>2. EndReader(p) => reader' = [reader EXCEPT ![p] = "ended"]
            BY DEF EndReader
        <3> QED BY <3>1, <3>2, <1>1, <1>3 DEF TypeOK
    <2>2. ASSUME NEW p \in Peers, NEW c \in Calls, MakesCall(p, c)
          PROVE  UNCHANGED reader
        BY <2>2 DEF MakesCall, CallFromTask, CallForId, CallFromReader,
                    CallInBackground
    <2>3. ASSUME NEW c \in Calls, CallEnds(c) PROVE UNCHANGED reader
        BY <2>3 DEF CallEnds, CallTimesOut, CallFails
    <2>4. ASSUME NEW p \in Peers, Close(p) \/ Expire(p) \/ Break \/ UNCHANGED vars
          PROVE  UNCHANGED reader
        BY <2>4 DEF Close, Expire, Break, vars
    <2>5. "client" \in Peers
        BY DEF Peers
    <2> QED BY <2>1, <2>2, <2>3, <2>4, <2>5, <1>3 DEF Next
<1>4. ASSUME NEW q \in Peers, EndReader(q)
      PROVE  link' = "down" /\ (closed'[q] \/ Reconnects(q))
    BY <1>1, <1>4 DEF EndReader, TypeOK
<1>5. \A q \in Peers : Reconnects(q)' <=> Reconnects(q)
    BY <1>2 DEF Reconnects
<1> QED BY <1>2, <1>3, <1>4, <1>5 DEF EndsInv

(* What happens to a frame on its way when an inbox changes.               *)
LEMMA TransitGrows ==
    ASSUME NEW p \in Peers, NEW f, NEW g \in Frames, inbox[p] \in Seq(Frames),
           inbox'[p] = Append(inbox[p], g)
    PROVE  InTransit(p, g)' /\ (InTransit(p, f) => InTransit(p, f)')
<1>1. /\ Len(inbox'[p]) = Len(inbox[p]) + 1 /\ Len(inbox[p]) \in Nat
      /\ inbox'[p][Len(inbox[p]) + 1] = g
      /\ \A i \in 1 .. Len(inbox[p]) : inbox'[p][i] = inbox[p][i]
    OBVIOUS
<1> QED BY <1>1 DEF InTransit

LEMMA TransitShrinks ==
    ASSUME NEW p \in Peers, NEW f, inbox[p] \in Seq(Frames), inbox[p] # <<>>,
           inbox'[p] = Tail(inbox[p]), f # Head(inbox[p]), InTransit(p, f)
    PROVE  InTransit(p, f)'
<1>1. /\ Len(inbox[p]) \in Nat \ {0} /\ Len(inbox'[p]) = Len(inbox[p]) - 1
      /\ Head(inbox[p]) = inbox[p][1]
      /\ \A i \in 1 .. Len(inbox'[p]) : inbox'[p][i] = inbox[p][i + 1]
    OBVIOUS
<1>2. PICK i \in 1 .. Len(inbox[p]) : inbox[p][i] = f
    BY DEF InTransit
<1>3. i # 1 /\ i \in Nat
    BY <1>1, <1>2
<1>4. i - 1 \in 1 .. Len(inbox'[p]) /\ i = (i - 1) + 1
    BY <1>1, <1>3
<1>5. inbox'[p][i - 1] = f
    BY <1>1, <1>2, <1>4
<1> QED BY <1>4, <1>5 DEF InTransit

(* A call stays where it is, or its request is taken up.                   *)
LEMMA SomewhereKept ==
    ASSUME NEW p \in Peers, NEW d \in Calls, Somewhere(d),
           caller[d] = p, caller'[d] = p,
           reply'[d] = reply[d], link' \in {link, "down"},
           \A q \in Peers : reader[q] = "failed" => reader'[q] = "failed",
           handles[Other(p)] = d => handles'[Other(p)] = d,
           InTransit(Other(p), Request(d)) =>
              InTransit(Other(p), Request(d))' \/ handles'[Other(p)] = d,
           InTransit(p, Answer(d, "answer")) => InTransit(p, Answer(d, "answer"))'
    PROVE  Somewhere(d)'
BY DEF Somewhere

(* A reader that failed does not read again.                               *)
LEMMA FailedStays ==
    ASSUME TypeOK, [Next]_vars, NEW q \in Peers, reader[q] = "failed"
    PROVE  reader'[q] = "failed"
<1>1. ASSUME NEW p \in Peers, ReaderStep(p)
      PROVE  \/ UNCHANGED reader
             \/ /\ reader[p] # "failed"
                /\ \E to \in Places : reader' = [reader EXCEPT ![p] = to]
    BY <1>1 DEF ReaderStep, BeginLoop, StartMethod, TakeAnswer, BounceAnswer,
                Resume, FinishMethod, NoticeEnd, FrameFails, FailReader,
                EndReader, Receives, Places
<1>2. ASSUME NEW p \in Peers, NEW c \in Calls, MakesCall(p, c)
      PROVE  UNCHANGED reader
    BY <1>2 DEF MakesCall, CallFromTask, CallForId, CallFromReader,
                CallInBackground
<1>3. ASSUME NEW c \in Calls, CallEnds(c) PROVE UNCHANGED reader
    BY <1>3 DEF CallEnds, CallTimesOut, CallFails
<1>4. ASSUME NEW p \in Peers, Close(p) \/ Expire(p) \/ Break \/ UNCHANGED vars
      PROVE  UNCHANGED reader
    BY <1>4 DEF Close, Expire, Break, vars
<1>5. "client" \in Peers
    BY DEF Peers
<1> QED BY <1>1, <1>2, <1>3, <1>4, <1>5 DEF Next, TypeOK

LEMMA WaitsStep ==
    ASSUME Inv, WaitsInv, [Next]_vars
    PROVE  WaitsInv'
<1> USE PeerFacts, CallFacts
<1>1. TypeOK /\ ReaderBlocked /\ MethodsInv /\ FramesInv
    BY DEF Inv
<1>2. SUFFICES ASSUME NEW d \in Calls, status'[d] = "waiting", link' # "down",
                      \A q \in Peers : reader'[q] # "failed"
               PROVE  Somewhere(d)'
    BY DEF WaitsInv, Somewhere
<1>0. \A q \in Peers : reader[q] # "failed"
    BY <1>1, <1>2, FailedStays
<1>3. \A p \in Peers : inbox[p] \in Seq(Frames)
    BY <1>1 DEF TypeOK
<1>4. /\ Request(d) \in Frames /\ Request(d).type = "request"
      /\ Request(d).call = d
      /\ Answer(d, "answer") \in Frames /\ Answer(d, "answer").type = "answer"
      /\ Answer(d, "answer").call = d /\ Answer(d, "answer").body = "answer"
    BY NewFrames DEF Bodies, Replies
<1>5. ASSUME NEW p \in Peers, NEW c \in Calls, MakesCall(p, c)
      PROVE  Somewhere(d)'
    <2>1. PICK k \in Kinds : Make(p, c, k)
        BY <1>5 DEF MakesCall, CallFromTask, CallForId, CallFromReader,
                    CallInBackground, Kinds
    <2>2. UNCHANGED <<link, handles, reply>>
        BY <1>5 DEF MakesCall, CallFromTask, CallForId, CallFromReader,
                    CallInBackground
    <2>3. /\ status[c] = "unused" /\ caller'[c] = p
          /\ d # c => caller'[d] = caller[d] /\ status'[d] = status[d]
          /\ inbox'[p] = inbox[p]
          /\ inbox'[Other(p)] = Append(inbox[Other(p)], Request(c))
        BY <2>1, <1>1 DEF Make, IsNext, TypeOK
    <2>4. Request(c) \in Frames
        BY NewFrames
    <2>5. /\ InTransit(Other(p), Request(c))'
          /\ \A f : InTransit(Other(p), f) => InTransit(Other(p), f)'
        BY <2>3, <2>4, <1>3, TransitGrows
    <2>6. \A f : InTransit(p, f) => InTransit(p, f)'
        BY <2>3 DEF InTransit
    <2>7. CASE d = c
        <3>1. reply'[c] = "none"
            BY <2>2, <2>3, <1>1 DEF FramesInv
        <3> QED BY <3>1, <2>3, <2>5, <2>7 DEF Somewhere
    <2>8. CASE d # c
        <3>1. PICK r \in Peers : r = caller[d]
            BY <1>1 DEF TypeOK
        <3>2. Somewhere(d) /\ caller'[d] = r
            BY <3>1, <2>3, <2>8, <1>2 DEF WaitsInv
        <3>3. \A q \in Peers : \A f : InTransit(q, f) => InTransit(q, f)'
            BY <2>5, <2>6
        <3> QED BY <3>1, <3>2, <3>3, <2>2, <1>0, SomewhereKept
    <2> QED BY <2>7, <2>8
(* Only the steps below move frames, methods or replies.                   *)
<1>6. ASSUME UNCHANGED <<inbox, link, handles, reply, caller>>, status[d] = "waiting"
      PROVE  Somewhere(d)'
    BY <1>0, <1>2, <1>6 DEF WaitsInv, Somewhere, InTransit
<1>7. ASSUME NEW c \in Calls, CallEnds(c) PROVE Somewhere(d)'
    <2>1. status[d] = "waiting"
        BY <1>1, <1>2, <1>7 DEF CallEnds, CallTimesOut, CallFails, TypeOK
    <2> QED BY <2>1, <1>6, <1>7 DEF CallEnds, CallTimesOut, CallFails
<1>8. ASSUME NEW p \in Peers, BeginLoop(p) \/ Resume(p) \/ Expire(p) \/ UNCHANGED vars
      PROVE  Somewhere(d)'
    BY <1>2, <1>6, <1>8 DEF BeginLoop, Resume, Expire, vars
<1>16. ASSUME NEW p \in Peers, FailReader(p) PROVE FALSE
    BY <1>1, <1>2, <1>16 DEF FailReader, TypeOK
<1>9. ASSUME NEW p \in Peers, NoticeEnd(p) \/ FrameFails(p) \/ Close(p) \/ Break
      PROVE  FALSE
    BY <1>2, <1>9, <1>16 DEF NoticeEnd, EndReader, FrameFails, Close, Break
<1>10. ASSUME NEW p \in Peers, StartMethod(p)
       PROVE  Somewhere(d)'
    <2>1. /\ inbox[p] # <<>> /\ inbox'[p] = Tail(inbox[p])
          /\ inbox'[Other(p)] = inbox[Other(p)]
          /\ Head(inbox[p]).type = "request"
          /\ handles[p] = NoCall /\ handles'[p] = Head(inbox[p]).call
          /\ handles'[Other(p)] = handles[Other(p)]
          /\ UNCHANGED <<link, caller, status, reply>>
        BY <1>1, <1>10 DEF StartMethod, Receives, MethodsInv, TypeOK
    <2>2. PICK r \in Peers : r = caller[d]
        BY <1>1 DEF TypeOK
    <2>3. Somewhere(d)
        BY <2>1, <1>2 DEF WaitsInv
    <2>4. handles[Other(r)] = d => handles'[Other(r)] = d
        BY <2>1
    <2>5. InTransit(Other(r), Request(d)) =>
             InTransit(Other(r), Request(d))' \/ handles'[Other(r)] = d
        <3>1. CASE Other(r) = p
            <4>1. CASE Head(inbox[p]) = Request(d)
                BY <4>1, <3>1, <2>1, <1>4
            <4>2. CASE Head(inbox[p]) # Request(d)
                BY <4>2, <3>1, <2>1, <1>3, TransitShrinks
            <4> QED BY <4>1, <4>2
        <3>2. CASE Other(r) = Other(p)
            BY <3>2, <2>1 DEF InTransit
        <3> QED BY <3>1, <3>2
    <2>6. InTransit(r, Answer(d, "answer")) => InTransit(r, Answer(d, "answer"))'
        <3>1. CASE r = p
            BY <3>1, <2>1, <1>3, <1>4, TransitShrinks
        <3>2. CASE r = Other(p)
            BY <3>2, <2>1 DEF InTransit
        <3> QED BY <3>1, <3>2
    <2> QED BY <2>1, <2>2, <2>3, <2>4, <2>5, <2>6, <1>0, SomewhereKept
<1>11. ASSUME NEW p \in Peers, TakeAnswer(p)
       PROVE  Somewhere(d)'
    <2>1. /\ inbox[p] # <<>> /\ inbox'[p] = Tail(inbox[p])
          /\ inbox'[Other(p)] = inbox[Other(p)]
          /\ Head(inbox[p]).type = "answer"
          /\ UNCHANGED <<link, caller, handles, reply>>
          /\ status[d] = "waiting"
          /\ caller[d] = p => Head(inbox[p]).call # d
        BY <1>1, <1>2, <1>11 DEF TakeAnswer, Receives, Awaited, TypeOK
    <2>2. PICK r \in Peers : r = caller[d]
        BY <1>1 DEF TypeOK
    <2>3. Somewhere(d)
        BY <2>1, <1>2 DEF WaitsInv
    <2>4. InTransit(Other(r), Request(d)) => InTransit(Other(r), Request(d))'
        <3>1. CASE Other(r) = p
            BY <3>1, <2>1, <1>3, <1>4, TransitShrinks
        <3>2. CASE Other(r) = Other(p)
            BY <3>2, <2>1 DEF InTransit
        <3> QED BY <3>1, <3>2
    <2>5. InTransit(r, Answer(d, "answer")) => InTransit(r, Answer(d, "answer"))'
        <3>1. CASE r = p
            BY <3>1, <2>1, <2>2, <1>3, <1>4, TransitShrinks
        <3>2. CASE r = Other(p)
            BY <3>2, <2>1 DEF InTransit
        <3> QED BY <3>1, <3>2
    <2> QED BY <2>1, <2>2, <2>3, <2>4, <2>5, <1>0, SomewhereKept
<1>12. ASSUME NEW p \in Peers, BounceAnswer(p)
       PROVE  Somewhere(d)'
    <2>1. PICK g \in Frames : g = Answer(Head(inbox[p]).call, "answer")
        <3>1. Head(inbox[p]) \in Frames
            BY <1>3, <1>12 DEF BounceAnswer, Receives
        <3> QED BY <3>1, FrameFacts, NewFrames DEF Bodies, Replies
    <2>2. /\ inbox[p] # <<>>
          /\ inbox' = [inbox EXCEPT ![p] = Tail(inbox[p]),
                                     ![Other(p)] = Append(inbox[Other(p)], g)]
          /\ Head(inbox[p]).type = "answer" /\ Head(inbox[p]).body = "empty"
          /\ UNCHANGED <<link, caller, handles, status, reply>>
        BY <1>2, <1>12, <1>16, <2>1 DEF BounceAnswer, Receives, Bounced, EndReader
    <2>3. /\ inbox'[p] = Tail(inbox[p])
          /\ inbox'[Other(p)] = Append(inbox[Other(p)], g)
        BY <2>2, <1>1 DEF TypeOK
    <2>4. \A f : InTransit(Other(p), f) => InTransit(Other(p), f)'
        BY <2>3, <1>3, TransitGrows
    <2>5. \A f : f # Head(inbox[p]) /\ InTransit(p, f) => InTransit(p, f)'
        BY <2>2, <2>3, <1>3, TransitShrinks
    <2>6. Request(d) # Head(inbox[p]) /\ Answer(d, "answer") # Head(inbox[p])
        BY <2>2, <1>4
    <2>7. \A q \in Peers :
             /\ InTransit(q, Request(d)) => InTransit(q, Request(d))'
             /\ InTransit(q, Answer(d, "answer")) => InTransit(q, Answer(d, "answer"))'
        BY <2>4, <2>5, <2>6
    <2>8. PICK r \in Peers : r = caller[d]
        BY <1>1 DEF TypeOK
    <2>9. Somewhere(d)
        BY <2>2, <1>2 DEF WaitsInv
    <2> QED BY <2>2, <2>7, <2>8, <2>9, <1>0, SomewhereKept
<1>13. ASSUME NEW p \in Peers, NEW how \in Replies, FinishMethod(p, how)
       PROVE  Somewhere(d)'
    <2>1. PICK c : c = handles[p]
        OBVIOUS
    <2>2. /\ c \in Calls /\ caller[c] = Other(p)
          /\ reply' = [reply EXCEPT ![c] = how]
          /\ handles' = [handles EXCEPT ![p] = NoCall]
          /\ UNCHANGED <<caller, status, link>>
          /\ \/ how = "noResponse" /\ UNCHANGED inbox
             \/ /\ how \in Bodies
                /\ inbox' = [inbox EXCEPT ![Other(p)] =
                                Append(inbox[Other(p)], Answer(c, how))]
        BY <2>1, <1>1, <1>2, <1>13, <1>16
           DEF FinishMethod, EndReader, Silent, MethodsInv, TypeOK, Bodies
    <2>3. reply'[c] = how
        BY <2>2, <1>1 DEF TypeOK
    <2>4. PICK r \in Peers : r = caller[d]
        BY <1>1 DEF TypeOK
    <2>5. how \in Bodies => /\ inbox'[p] = inbox[p]
                            /\ inbox'[Other(p)] = Append(inbox[Other(p)], Answer(c, how))
        BY <2>2, <1>1 DEF TypeOK, Bodies
    <2>6. how \in Bodies => /\ InTransit(Other(p), Answer(c, how))'
                            /\ \A f : InTransit(Other(p), f) => InTransit(Other(p), f)'
        <3> SUFFICES ASSUME how \in Bodies
                     PROVE  /\ InTransit(Other(p), Answer(c, how))'
                            /\ \A f : InTransit(Other(p), f) => InTransit(Other(p), f)'
            OBVIOUS
        <3>1. PICK g \in Frames : g = Answer(c, how)
            BY <2>2, NewFrames
        <3>2. inbox'[Other(p)] = Append(inbox[Other(p)], g)
            BY <2>5, <3>1
        <3>3. /\ InTransit(Other(p), g)'
              /\ \A f : InTransit(Other(p), f) => InTransit(Other(p), f)'
            BY <3>2, <1>3, TransitGrows
        <3>4. InTransit(Other(p), Answer(c, how))'
            BY <3>1, <3>2, <3>3 DEF InTransit, Answer
        <3> QED BY <3>3, <3>4
    <2>7. CASE d = c
        <3>1. CASE how \in {"empty", "noResponse"}
            BY <3>1, <2>3, <2>7 DEF Somewhere
        <3>2. CASE how = "answer"
            <4>1. InTransit(Other(p), Answer(d, "answer"))' /\ caller'[d] = Other(p)
                BY <3>2, <2>2, <2>6, <2>7 DEF Bodies, Replies
            <4> QED BY <4>1, <3>2, <2>3, <2>7 DEF Somewhere
        <3> QED BY <3>1, <3>2 DEF Replies
    <2>8. CASE d # c
        <3>1. Somewhere(d) /\ reply'[d] = reply[d]
            BY <2>2, <2>8, <1>1, <1>2 DEF WaitsInv, TypeOK
        <3>2. \A q \in Peers : \A f : InTransit(q, f) => InTransit(q, f)'
            <4>1. CASE UNCHANGED inbox
                BY <4>1 DEF InTransit
            <4>2. CASE how \in Bodies
                BY <4>2, <2>5, <2>6 DEF InTransit
            <4> QED BY <4>1, <4>2, <2>2
        <3>3. handles[Other(r)] = d => handles'[Other(r)] = d
            BY <2>1, <2>2, <2>8, <1>1 DEF TypeOK
        <3> QED BY <3>1, <3>2, <3>3, <2>2, <2>4, <1>0, SomewhereKept
    <2> QED BY <2>7, <2>8
<1>14. "client" \in Peers
    BY DEF Peers
<1>15. ASSUME NEW p \in Peers, ReaderStep(p) PROVE Somewhere(d)'
    BY <1>8, <1>9, <1>10, <1>11, <1>12, <1>13, <1>15 DEF ReaderStep
<1> QED BY <1>5, <1>7, <1>8, <1>9, <1>14, <1>15 DEF Next

LEMMA CallsAreSomewhere == Spec => [](Inv /\ EndsInv /\ WaitsInv)
<1>1. Init => EndsInv /\ WaitsInv
    BY DEF Init, EndsInv, WaitsInv, Peers
<1>2. Inv /\ EndsInv /\ WaitsInv /\ [Next]_vars => EndsInv' /\ WaitsInv'
    BY EndsStep, WaitsStep
<1> QED BY InitInv, StepInv, <1>1, <1>2, PTL DEF Spec

(* The type invariant.                                                     *)
THEOREM TypeTheorem == Spec => []TypeOK
<1>1. Inv => TypeOK
    BY DEF Inv
<1> QED BY Invariance, <1>1, PTL

(* A call that a method or a connect callback awaits is never answered.    *)
THEOREM StarveTheorem == Spec => []NestedCallsStarve
<1>1. Inv => NestedCallsStarve
    BY DEF Inv, ReaderBlocked
<1> QED BY Invariance, <1>1, PTL

(* A stored answer is what the method of that call gave.                   *)
THEOREM AnswerTheorem == Spec => []AnswersAreReal
<1>1. Inv => AnswersAreReal
    BY DEF Inv, FramesInv
<1> QED BY Invariance, <1>1, PTL

(* What a reader can do next: all but waiting for a frame or for a call.   *)
ReaderCanMove(p) ==
    \/ reader[p] \in {"callbacks", "handling"} /\ awaits[p] = NoCall
    \/ awaits[p] # NoCall /\ status[awaits[p]] # "waiting"
    \/ Receives(p)
    \/ reader[p] = "receiving" /\ link = "down"

(* No call is lost on the way: where both readers can do nothing more, a   *)
(* call still waits only because a reader awaits a nested call, because    *)
(* the method gave None or NoResponse, because it has still to be told     *)
(* that its channel is closed, or because it was abandoned.                *)
WaitsAreJustified ==
    \A c \in Calls :
        status[c] = "waiting" /\ (\A p \in Peers : ~ReaderCanMove(p)) =>
            \/ \E p \in Peers : awaits[p] # NoCall
            \/ reply[c] \in {"empty", "noResponse"}
            \/ closed[caller[c]]
            \/ Abandoned(c)

(* This is what StallsHaveReasons says of a state, without its fairness.   *)
THEOREM WaitsTheorem == Spec => []WaitsAreJustified
<1> USE PeerFacts, CallFacts
<1>1. ASSUME Inv, EndsInv, WaitsInv
      PROVE  WaitsAreJustified
    <2> SUFFICES ASSUME NEW c \in Calls, status[c] = "waiting",
                        \A p \in Peers : ~ReaderCanMove(p),
                        \A p \in Peers : awaits[p] = NoCall,
                        ~closed[caller[c]], ~Abandoned(c)
                 PROVE  reply[c] \in {"empty", "noResponse"}
        BY DEF WaitsAreJustified
    <2>1. TypeOK /\ MethodsInv
        BY <1>1 DEF Inv
    <2>2. PICK p \in Peers : p = caller[c]
        BY <2>1 DEF TypeOK
    <2>3. \A q \in Peers : reader[q] \in {"receiving", "ended", "failed"}
        BY <2>1 DEF ReaderCanMove, TypeOK, Places
    <2>4. reader[p] = "receiving" /\ link = "up"
        <3>1. reader[p] # "failed"
            BY <2>2 DEF Abandoned
        <3>2. reader[p] # "ended"
            BY <2>2, <1>1 DEF Abandoned, EndsInv
        <3> QED BY <3>1, <3>2, <2>1, <2>3 DEF ReaderCanMove, TypeOK
    <2>5. \A q \in Peers : reader[q] = "receiving" /\ inbox[q] = <<>>
        <3> TAKE q \in Peers
        <3>1. reader[q] = "receiving"
            <4>1. reader[q] # "ended"
                BY <2>4, <1>1 DEF EndsInv
            <4>2. reader[Other(p)] # "failed"
                BY <2>2, <2>4 DEF Abandoned
            <4> QED BY <4>1, <4>2, <2>3, <2>4
        <3> QED BY <3>1 DEF ReaderCanMove, Receives
    <2>6. \A q \in Peers : handles[q] = NoCall /\ \A f : ~InTransit(q, f)
        BY <2>1, <2>5 DEF MethodsInv, InTransit
    <2> QED BY <2>2, <2>4, <2>5, <2>6, <1>1 DEF WaitsInv, Somewhere
<1> QED BY <1>1, CallsAreSomewhere, PTL

(* The two peers implement RemoteCalls.                                    *)
(* The initial state is an initial state of RemoteCalls.                   *)
LEMMA RefinesInit == Init => RC!Init
BY CallFacts DEF Init, RC!Init, ExecutionOf, Peers

(* A step that leaves calls and methods alone, and one that moves a call   *)
(* or a method.                                                            *)
LEMMA RefinesQuiet ==
    ASSUME UNCHANGED <<status, reply, handles>>
    PROVE  UNCHANGED RC!vars
BY DEF RC!vars, ExecutionOf

(* Which method runs: the one whose request a reader took and still holds. *)
LEMMA ExecutionFacts ==
    ASSUME Inv, NEW c \in Calls
    PROVE  /\ (\E p \in Peers : handles[p] = c) => reply[c] = "none"
           /\ ExecutionOf(c) = "none" <=>
                 reply[c] = "none" /\ \A p \in Peers : handles[p] # c
           /\ ExecutionOf(c) = "running" <=> \E p \in Peers : handles[p] = c
<1>1. reply[c] \in {"answer", "empty", "noResponse", "none"}
    BY DEF Inv, TypeOK, Replies
<1>2. ASSUME NEW p \in Peers, handles[p] = c PROVE reply[c] = "none"
    BY <1>2, CallFacts DEF Inv, MethodsInv
<1> QED BY <1>1, <1>2 DEF ExecutionOf

(* A request is taken up: its method has not run and does not run.         *)
LEMMA RefinesStart ==
    ASSUME Inv, NEW p \in Peers, StartMethod(p)
    PROVE  RC!Next
<1> USE PeerFacts, CallFacts
<1>1. TypeOK /\ MethodsInv /\ FramesInv
    BY DEF Inv
<1>2. PICK c : c = Head(inbox[p]).call
    OBVIOUS
<1>3. /\ c \in Calls /\ status[c] # "unused" /\ caller[c] = Other(p)
      /\ reply[c] = "none"
    <2>1. PICK s : s = inbox[p]
        OBVIOUS
    <2>2. /\ s \in Seq(Frames) /\ s # <<>> /\ InboxOK(p, s) /\ Distinct(s)
          /\ Head(s).type = "request"
        BY <2>1, <1>1 DEF StartMethod, Receives, TypeOK, FramesInv
    <2> QED BY <2>1, <2>2, <1>2, TailKeeps, FrameFacts DEF FrameOK
<1>4. /\ handles[p] = NoCall /\ handles' = [handles EXCEPT ![p] = c]
      /\ UNCHANGED <<status, reply>>
    BY <1>1, <1>2 DEF StartMethod, Receives, MethodsInv
<1>5. \A q \in Peers : handles[q] # c
    BY <1>1, <1>3, <1>4 DEF MethodsInv
<1>6. ExecutionOf(c) = "none"
    BY <1>3, <1>5, ExecutionFacts
<1>7. \A d \in Calls :
         ExecutionOf(d)' = IF d = c THEN "running" ELSE ExecutionOf(d)
    <2> TAKE d \in Calls
    <2>1. (\E q \in Peers : handles'[q] = d)
             <=> d = c \/ \E q \in Peers : handles[q] = d
        BY <1>1, <1>4 DEF TypeOK
    <2> QED BY <2>1, <1>3, <1>4 DEF ExecutionOf
<1>8. [d \in Calls |-> ExecutionOf(d)']
        = [[d \in Calls |-> ExecutionOf(d)] EXCEPT ![c] = "running"]
    BY <1>7
<1>9. RC!Run(c)
    BY <1>3, <1>4, <1>6, <1>8 DEF RC!Run, RC!Executes
<1> QED BY <1>3, <1>9 DEF RC!Next

(* A method ends, and what it gave is its call's for good.                 *)
LEMMA RefinesFinish ==
    ASSUME Inv, NEW p \in Peers, NEW how \in Replies, FinishMethod(p, how)
    PROVE  RC!Next
<1> USE PeerFacts, CallFacts
<1>1. TypeOK /\ MethodsInv
    BY DEF Inv
<1>2. PICK c : c = handles[p]
    OBVIOUS
<1>3. /\ c \in Calls /\ reply' = [reply EXCEPT ![c] = how]
      /\ handles' = [handles EXCEPT ![p] = NoCall]
      /\ UNCHANGED status /\ caller[c] = Other(p)
    BY <1>1, <1>2 DEF FinishMethod, MethodsInv, TypeOK
<1>4. ExecutionOf(c) = "running"
    BY <1>2, <1>3, ExecutionFacts
<1>5. \A d \in Calls : ExecutionOf(d)' = IF d = c THEN how ELSE ExecutionOf(d)
    <2> TAKE d \in Calls
    <2>1. CASE d = c
        BY <2>1, <1>1, <1>3 DEF ExecutionOf, TypeOK, Replies
    <2>2. CASE d # c
        <3>1. reply'[d] = reply[d]
            BY <2>2, <1>1, <1>3 DEF TypeOK
        <3>2. \A q \in Peers : handles'[q] = d <=> handles[q] = d
            BY <2>2, <1>1, <1>2, <1>3 DEF TypeOK
        <3> QED BY <3>1, <3>2, <2>2 DEF ExecutionOf
    <2> QED BY <2>1, <2>2
<1>6. [d \in Calls |-> ExecutionOf(d)']
        = [[d \in Calls |-> ExecutionOf(d)] EXCEPT ![c] = how]
    BY <1>5
<1>7. RC!Give(c, how)
    BY <1>3, <1>4, <1>6 DEF RC!Give, RC!Executes
<1>8. how \in RC!Gifts
    BY DEF Replies, RC!Gifts
<1> QED BY <1>3, <1>7, <1>8 DEF RC!Next

(* An answer is taken: its call had one from its own method.               *)
LEMMA RefinesTake ==
    ASSUME Inv, NEW p \in Peers, TakeAnswer(p)
    PROVE  RC!Next \/ UNCHANGED RC!vars
<1>1. TypeOK /\ FramesInv
    BY DEF Inv
<1>2. PICK f : f = Head(inbox[p])
    OBVIOUS
<1>3. FrameOK(p, f) /\ f \in Frames /\ f.call \in Calls
    <2>1. PICK s : s = inbox[p]
        OBVIOUS
    <2>2. s \in Seq(Frames) /\ s # <<>> /\ InboxOK(p, s) /\ Distinct(s)
        BY <2>1, <1>1 DEF TakeAnswer, Receives, TypeOK, FramesInv
    <2> QED BY <2>1, <2>2, <1>2, TailKeeps, FrameFacts
<1>4. UNCHANGED <<reply, handles>>
    BY DEF TakeAnswer
<1>5. CASE ~Awaited(p, f.call)
    <2>1. UNCHANGED status
        BY <1>2, <1>5 DEF TakeAnswer
    <2> QED BY <2>1, <1>4, RefinesQuiet
<1>6. CASE Awaited(p, f.call)
    <2>1. /\ status' = [status EXCEPT ![f.call] = "answered"]
          /\ status[f.call] = "waiting" /\ caller[f.call] = p
          /\ f.type = "answer" /\ f.body # "empty"
        BY <1>2, <1>6 DEF TakeAnswer, Awaited, Bounced
    <2>2. reply[f.call] = "answer"
        BY <2>1, <1>3, FrameFacts DEF FrameOK, Bodies, Replies
    <2>3. ExecutionOf(f.call) = "answer"
        BY <2>2 DEF ExecutionOf
    <2>4. RC!Answer(f.call)
        BY <2>1, <2>3, <1>3, <1>4 DEF RC!Answer, RC!Moves, ExecutionOf
    <2> QED BY <2>4, <1>3 DEF RC!Next
<1> QED BY <1>5, <1>6

LEMMA RefinesNext == Inv /\ [Next]_vars => [RC!Next]_(RC!vars)
<1> SUFFICES ASSUME Inv, [Next]_vars PROVE RC!Next \/ UNCHANGED RC!vars
    OBVIOUS
<1>1. ASSUME NEW p \in Peers, NEW c \in Calls, MakesCall(p, c) PROVE RC!Next
    <2>1. UNCHANGED <<reply, handles>>
        BY <1>1 DEF MakesCall, CallFromTask, CallForId, CallFromReader,
                    CallInBackground
    <2>2. status[c] = "unused" /\ status' = [status EXCEPT ![c] = "waiting"]
        BY <1>1 DEF MakesCall, CallFromTask, CallForId, CallFromReader,
                    CallInBackground, Make, IsNext
    <2>3. RC!Make(c)
        BY <2>1, <2>2 DEF RC!Make, RC!Moves, ExecutionOf
    <2> QED BY <2>3 DEF RC!Next
<1>2. ASSUME NEW c \in Calls, CallEnds(c) PROVE RC!Next
    <2>1. RC!GiveUp(c)
        BY <1>2 DEF CallEnds, CallTimesOut, CallFails, RC!GiveUp, RC!Moves,
                    ExecutionOf
    <2> QED BY <2>1 DEF RC!Next
<1>3. ASSUME NEW p \in Peers, ReaderStep(p) PROVE RC!Next \/ UNCHANGED RC!vars
    <2>1. CASE \/ BeginLoop(p) \/ Resume(p) \/ NoticeEnd(p)
               \/ BounceAnswer(p) \/ FrameFails(p)
        BY <2>1, RefinesQuiet DEF BeginLoop, Resume, NoticeEnd, BounceAnswer,
                                  FrameFails
    <2> QED BY <2>1, <1>3, RefinesStart, RefinesFinish, RefinesTake DEF ReaderStep
<1>4. ASSUME NEW p \in Peers, Close(p) \/ Expire(p) \/ Break \/ UNCHANGED vars
      PROVE  UNCHANGED RC!vars
    BY <1>4, RefinesQuiet DEF Close, Expire, Break, vars
<1>5. "client" \in Peers
    BY DEF Peers
<1> QED BY <1>1, <1>2, <1>3, <1>4, <1>5 DEF Next

(* The two peers implement RemoteCalls: a method runs at most once for a   *)
(* call that was made, and its call is answered only with what it gave.    *)
THEOREM Refinement == Spec => ImplementsRemoteCalls
BY RefinesInit, RefinesNext, Invariance, PTL DEF Spec, ImplementsRemoteCalls, RC!Spec

=============================================================================
