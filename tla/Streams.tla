-------------------------------- MODULE Streams --------------------------------
(***************************************************************************)
(* One named stream of Server-Sent Events (internal/server/sse.go): its    *)
(* consumers are HTTP requests, its producers sse-forward handlers and the *)
(* server's shell. A stream that was not declared is created by its first  *)
(* UpdateStreamConfig, so the name may come to stand for another object.   *)
(* Events are numbered in the order in which they are sent.                *)
(***************************************************************************)
EXTENDS Absent, Naturals, Sequences, SequencesExt

CONSTANTS Consumers,   \* HTTP requests for the stream
          Producers,   \* goroutines that send to it or configure it
          Sizes,       \* buffer sizes that are configured
          ChanCap,     \* capacity of a consumer's channel, 10 in the code
          MaxEvents,   \* bound: events sent
          MaxConfigs   \* bound: configurations and clearings

ASSUME StreamsAssumption ==
  /\ Sizes \subseteq Nat /\ ChanCap \in Nat \ {0}
  /\ MaxEvents \in Nat /\ MaxConfigs \in Nat
  /\ None \notin Nat \cup Consumers

VARIABLES
  named,     \* m.streams[name]: the index of a stream, or None
  stream,    \* the streams made so far
  producer,  \* for each producer, the call it is in
  consumer,  \* for each consumer, where its request is
  events,    \* how many events there were
  configs    \* how many calls of the other two kinds there were

sseVars == <<named, stream, producer, consumer, events, configs>>

Modes == {"drop", "buffer"}
NewStream(mode, size) == [mode |-> mode, size |-> size, buffer |-> <<>>, attached |-> {}, mu |-> None]
NoCall == [pc |-> "idle", at |-> None, mode |-> None, size |-> 0]

(* ch: its channel. todo: what is left to replay. got: what was written to *)
(* the response. from: events sent before it attached. full: events it     *)
(* missed because its channel was full.                                    *)
NoRequest == [pc |-> "idle", at |-> None, ch |-> <<>>, todo |-> <<>>, got |-> <<>>,
              from |-> 0, full |-> {}]

SSEInit ==
  /\ \/ named = None /\ stream = <<>>
     \/ named = 1 /\ \E s \in Sizes : stream = <<NewStream("drop", s)>>
  /\ producer = [p \in Producers |-> NoCall]
  /\ consumer = [c \in Consumers |-> NoRequest]
  /\ events = 0 /\ configs = 0

Free(at) == stream[at].mu = None

-----------------------------------------------------------------------------
(* The producers: a stream is looked up under m.mu, then used under s.mu *)

Call(p, pc) == producer' = [producer EXCEPT ![p] = [NoCall EXCEPT !.pc = pc, !.at = named]]
Returns(p) == producer' = [producer EXCEPT ![p] = NoCall]

SendLookup(p) ==
  /\ producer[p] = NoCall /\ named # None /\ events < MaxEvents
  /\ Call(p, "send")
  /\ UNCHANGED <<named, stream, consumer, events, configs>>

(* Only the newest size events stay in the buffer. *)
Keep(buffer, size) == SubSeq(buffer, IF Len(buffer) > size THEN Len(buffer) - size + 1 ELSE 1, Len(buffer))

Offer(c, e) ==
  IF Len(consumer[c].ch) < ChanCap THEN [consumer[c] EXCEPT !.ch = Append(@, e)]
  ELSE [consumer[c] EXCEPT !.full = @ \cup {e}]

(* Without consumers the event is buffered or dropped. *)
SendToSSE(p) ==
  LET at == producer[p].at
      s == stream[at]
      e == events + 1 IN
  /\ producer[p].pc = "send" /\ Free(at) /\ events < MaxEvents
  /\ events' = e
  /\ IF s.attached = {}
     THEN /\ stream' = IF s.mode = "buffer" THEN [stream EXCEPT ![at].buffer = Keep(Append(@, e), s.size)]
                       ELSE stream
          /\ UNCHANGED consumer
     ELSE /\ consumer' = [c \in Consumers |-> IF c \in s.attached THEN Offer(c, e) ELSE consumer[c]]
          /\ UNCHANGED stream
  /\ Returns(p)
  /\ UNCHANGED <<named, configs>>

ConfigLookup(p, mode, size) ==
  /\ producer[p] = NoCall /\ configs < MaxConfigs
  /\ configs' = configs + 1
  /\ producer' = [producer EXCEPT ![p] = [pc |-> IF named = None THEN "create" ELSE "config",
                                          at |-> named, mode |-> mode, size |-> size]]
  /\ UNCHANGED <<named, stream, consumer, events>>

(* Whatever another producer has created in between is replaced. *)
CreateStream(p) ==
  /\ producer[p].pc = "create"
  /\ stream' = Append(stream, NewStream(producer[p].mode, producer[p].size))
  /\ named' = Len(stream) + 1
  /\ Returns(p)
  /\ UNCHANGED <<consumer, events, configs>>

UpdateStreamConfig(p) ==
  LET q == producer[p] IN
  /\ q.pc = "config" /\ Free(q.at)
  /\ stream' = [stream EXCEPT ![q.at] = [@ EXCEPT !.buffer = Keep(stream[q.at].buffer, q.size),
                                                   !.mode = q.mode, !.size = q.size]]
  /\ Returns(p)
  /\ UNCHANGED <<named, consumer, events, configs>>

ClearLookup(p) ==
  /\ producer[p] = NoCall /\ named # None /\ configs < MaxConfigs
  /\ configs' = configs + 1
  /\ Call(p, "clear")
  /\ UNCHANGED <<named, stream, consumer, events>>

ClearBuffer(p) ==
  LET at == producer[p].at IN
  /\ producer[p].pc = "clear" /\ Free(at)
  /\ stream' = [stream EXCEPT ![at].buffer = <<>>]
  /\ Returns(p)
  /\ UNCHANGED <<named, consumer, events, configs>>

-----------------------------------------------------------------------------
(* The consumers: HandleSSE *)

Becomes(c, r) == consumer' = [consumer EXCEPT ![c] = r]

Request(c) ==
  /\ consumer[c] = NoRequest /\ named # None
  /\ Becomes(c, [NoRequest EXCEPT !.pc = "join", !.at = named])
  /\ UNCHANGED <<named, stream, producer, events, configs>>

(* Mutant: the lock is released before the replay. *)
JoinUnlocked(c) ==
  LET r == consumer[c]
      s == stream[r.at]
      replay == s.mode = "buffer" /\ s.buffer # <<>> IN
  /\ r.pc = "join" /\ Free(r.at)
  /\ stream' = [stream EXCEPT ![r.at].attached = @ \cup {c}]
  /\ Becomes(c, [r EXCEPT !.pc = IF replay THEN "replay" ELSE "serve", !.from = events,
                          !.todo = IF replay THEN s.buffer ELSE <<>>])
  /\ UNCHANGED <<named, producer, events, configs>>

(* Attach under s.mu; s.mu stays locked during the replay. *)
Join(c) ==
  LET r == consumer[c]
      s == stream[r.at]
      replay == s.mode = "buffer" /\ s.buffer # <<>> IN
  /\ r.pc = "join" /\ Free(r.at)
  /\ stream' = [stream EXCEPT ![r.at] = [@ EXCEPT !.attached = s.attached \cup {c},
                                                   !.mu = IF replay THEN c ELSE None]]
  /\ Becomes(c, [r EXCEPT !.pc = IF replay THEN "replay" ELSE "serve", !.from = events,
                          !.todo = IF replay THEN s.buffer ELSE <<>>])
  /\ UNCHANGED <<named, producer, events, configs>>

(* ch <- ev, which waits while the channel is full. *)
Replay(c) ==
  LET r == consumer[c]
      last == Len(r.todo) = 1 IN
  /\ r.pc = "replay" /\ Len(r.ch) < ChanCap
  /\ Becomes(c, [r EXCEPT !.ch = Append(@, Head(r.todo)), !.todo = Tail(@),
                          !.pc = IF last THEN "serve" ELSE "replay"])
  /\ stream' = IF last THEN [stream EXCEPT ![r.at].mu = None] ELSE stream
  /\ UNCHANGED <<named, producer, events, configs>>

WriteEvent(c) ==
  LET r == consumer[c] IN
  /\ r.pc = "serve" /\ r.ch # <<>>
  /\ Becomes(c, [r EXCEPT !.got = Append(@, Head(r.ch)), !.ch = Tail(@)])
  /\ UNCHANGED <<named, stream, producer, events, configs>>

(* The request ends, or its response cannot stream. *)
Disconnect(c) ==
  /\ consumer[c].pc = "serve"
  /\ Becomes(c, [consumer[c] EXCEPT !.pc = "leave"])
  /\ UNCHANGED <<named, stream, producer, events, configs>>

(* The deferred end: detach and close the channel. *)
Detach(c) ==
  LET r == consumer[c] IN
  /\ r.pc = "leave" /\ Free(r.at)
  /\ stream' = [stream EXCEPT ![r.at].attached = @ \ {c}]
  /\ Becomes(c, [r EXCEPT !.pc = "gone", !.ch = <<>>])
  /\ UNCHANGED <<named, producer, events, configs>>

-----------------------------------------------------------------------------
Produce(p) == SendToSSE(p) \/ CreateStream(p) \/ UpdateStreamConfig(p) \/ ClearBuffer(p)
ConsumerRuns(c) == Join(c) \/ Replay(c) \/ WriteEvent(c) \/ Detach(c)

SSENext ==
  \/ \E p \in Producers :
       \/ SendLookup(p) \/ ClearLookup(p) \/ Produce(p)
       \/ \E mode \in Modes, size \in Sizes : ConfigLookup(p, mode, size)
  \/ \E c \in Consumers : Request(c) \/ Disconnect(c) \/ ConsumerRuns(c)

(* Nothing is left to do but to wait for requests or events. *)
SSEQuiet ==
  /\ \A p \in Producers : producer[p] = NoCall \/ (producer[p].pc = "send" /\ events = MaxEvents)
  /\ \A c \in Consumers : consumer[c].pc \in {"idle", "gone"} \/
                          (consumer[c].pc = "serve" /\ consumer[c].ch = <<>>)
  /\ UNCHANGED sseVars

(* A response takes what is written to it, or its request ends. *)
SSESpec ==
  /\ SSEInit /\ [][SSENext \/ SSEQuiet]_sseVars
  /\ \A p \in Producers : WF_sseVars(Produce(p))
  /\ \A c \in Consumers : WF_sseVars(ConsumerRuns(c))

-----------------------------------------------------------------------------
(* Properties *)

(* A stream's buffer stays within its size, its lock is held by the        *)
(* consumer that is being replayed to and by nobody else.                  *)
SSETypeOK ==
  /\ named \in DOMAIN stream \cup {None}
  /\ \A i \in DOMAIN stream :
       LET s == stream[i] IN
       /\ s.mode \in Modes /\ s.size \in Sizes /\ Len(s.buffer) <= s.size
       /\ s.attached = {c \in Consumers : consumer[c].at = i /\ consumer[c].pc \in {"replay", "serve", "leave"}}
       /\ s.mu \in {c \in s.attached : consumer[c].pc = "replay"} \cup {None}
  /\ \A c \in Consumers : Len(consumer[c].ch) <= ChanCap
  /\ \A p \in Producers : producer[p].pc \in {"idle", "send", "create", "config", "clear"}
  /\ events \in 0..MaxEvents /\ configs \in 0..MaxConfigs

(* A consumer gets the replayed events first and then the live ones, each  *)
(* once and in the order in which they were sent. While it is attached to  *)
(* the stream that has the name it gets every event that is sent, except   *)
(* those that met a full channel.                                          *)
ReplayThenLive ==
  \A c \in Consumers :
    LET r == consumer[c]
        all == r.got \o r.ch IN
    /\ \A i, j \in DOMAIN all : i < j => all[i] < all[j]
    /\ r.pc \in {"replay", "serve"} /\ r.at = named /\ Len(stream) = 1 =>
         (r.from + 1)..events \subseteq ToSet(all) \cup r.full

(* sse.go:133: the buffer is "replayed in order to the next consumer that  *)
(* connects": consumers that connect get past their replay, and with them  *)
(* every call that waits for the stream.                                   *)
Connecting == {c \in Consumers : consumer[c].pc \in {"join", "replay"}}

ReplayEnds == Connecting # {} ~> Connecting = {}

=============================================================================
