------------------------------ MODULE WindowProofs ------------------------------
(* What the window around its pages promises (MCWindow), proved for any number of
   connections, tabs, settings, conversations, events and calls. *)
EXTENDS MCWindow, Sequences, Integers, FiniteSetTheorems, TLAPS

--------------------------------------------------------------------------------
(* The dock. *)

LEMMA DockBounds == MaxSeq \in Nat /\ MaxCalls \in Nat /\ Dock!Gone = MaxSeq + 1
BY DockAssumption DEF Dock!Gone

(* From a position on, everything Go has said in a conversation is on its way to the
   window, its end as well. *)
Follows(s, n) ==
    /\ \A m \in n + 1..seq[s] : <<s, m>> \in flight
    /\ s \notin held => <<s, MaxSeq + 1>> \in flight

(* A reread that has not failed. *)
Rereading(s) == \E c \in dockCalls : c.kind = "reread" /\ c.session = s /\ c.at # "failed"

(* What reaches the window is something Go has said. *)
NothingMadeUp ==
    /\ \A e \in flight : e[2] = MaxSeq + 1 \/ e[2] <= seq[e[1]]
    /\ \A c \in dockCalls : c.seq <= seq[c.session]
    /\ \A c \in dockCalls : c.kind = "start" => seq[c.session] = 0

(* While nothing was lost or crossed, an answer can be followed from where it is, and the
   dock from where it is or from a reread under way. *)
NothingMissed ==
    ~lost =>
        /\ \A c \in dockCalls : c.at # "failed"
        /\ ~passed =>
              /\ \A c \in dockCalls : c.at = "answered" => Follows(c.session, c.seq)
              /\ \A s \in Sessions : Dock!Shows(s) =>
                    /\ s \notin held => <<s, MaxSeq + 1>> \in flight
                    /\ Follows(s, dock.seq) \/ Rereading(s)

DockInv ==
    Dock!TypeOK /\ Dock!ShownIsWhole /\ Dock!ReadingHasCall /\ NothingMadeUp /\ NothingMissed

(* It says what the run checks: at rest nothing is on its way. *)
LEMMA DockInvImplies == DockInv => Dock!BehindIsNoticed
<1> SUFFICES ASSUME DockInv, dockCalls = {}, flight = {}, ~lost, ~passed,
                    NEW s \in Sessions, Dock!Shows(s)
             PROVE  s \in held /\ dock.seq = seq[s]
  BY DEF Dock!BehindIsNoticed, Dock!Rest, Dock!Current
<1>1. s \in held /\ Follows(s, dock.seq)
  BY DEF DockInv, NothingMissed, Rereading
<1>2. dock.seq \in Nat /\ seq[s] \in Nat /\ dock.seq <= seq[s]
  BY DockBounds DEF DockInv, Dock!TypeOK, Dock!ShownIsWhole
<1>3. ~(dock.seq < seq[s])
  <2> SUFFICES ASSUME dock.seq < seq[s] PROVE FALSE
    OBVIOUS
  <2>1. seq[s] \in dock.seq + 1..seq[s]
    BY <1>2
  <2> QED BY <1>1, <2>1 DEF Follows
<1> QED BY <1>1, <1>2, <1>3

LEMMA DockInitInv == Dock!Init => DockInv
<1> SUFFICES ASSUME Dock!Init PROVE DockInv
  OBVIOUS
<1> USE DEF Dock!Init, Dock!NoDock
<1>1. Dock!TypeOK
  <2>1. seq \in [Sessions -> 0..MaxSeq]
    BY DockBounds, DockAssumption
  <2>2. dock \in [session : SUBSET Sessions, seq : 0..MaxSeq, shown : SUBSET (1..MaxSeq)]
    BY DockBounds
  <2>3. dockCalls \subseteq [no : 1..MaxCalls, kind : {"restore", "open", "start", "reread"},
                             session : Sessions, at : {"sent", "answered", "failed"}, seq : 0..MaxSeq]
    BY DockBounds, DockAssumption
  <2>4. \A c, d \in dockCalls : c.no = d.no => c = d
    OBVIOUS
  <2> QED BY <2>1, <2>2, <2>3, <2>4 DEF Dock!TypeOK
<1>2. Dock!ShownIsWhole
  BY <1>1 DEF Dock!ShownIsWhole, Dock!Shows
<1>3. NothingMadeUp
  <2>1. \A c \in dockCalls : c.kind = "restore" /\ c.seq = 0 /\ c.session \in held
    OBVIOUS
  <2> QED BY <2>1 DEF NothingMadeUp
<1>4. NothingMissed
  <2>1. \A c \in dockCalls : c.at = "sent"
    OBVIOUS
  <2> QED BY <2>1 DEF NothingMissed, Dock!Shows
<1> QED BY <1>1, <1>2, <1>3, <1>4 DEF DockInv, Dock!ReadingHasCall

--------------------------------------------------------------------------------
(* What Go does. *)

(* Sessions and numbers of what the dock has to do with. *)
LEMMA DockTypes ==
    ASSUME Dock!TypeOK
    PROVE  /\ \A s \in Sessions : seq[s] \in 0..MaxSeq
           /\ \A e \in flight : e[1] \in Sessions /\ e[2] \in 1..MaxSeq + 1 /\ e = <<e[1], e[2]>>
           /\ \A c \in dockCalls :
                 /\ c.no \in 1..MaxCalls /\ c.session \in Sessions /\ c.seq \in 0..MaxSeq
                 /\ c.kind \in {"restore", "open", "start", "reread"}
                 /\ c.at \in {"sent", "answered", "failed"}
           /\ dock.seq \in 0..MaxSeq /\ dock.session \in SUBSET Sessions
           /\ dock.shown \in SUBSET (1..MaxSeq)
BY DockBounds DEF Dock!TypeOK

LEMMA EmitInv == ASSUME DockInv, NEW s \in Sessions, Dock!Emit(s) PROVE DockInv'
<1> USE DEF Dock!Emit
<1>0. Dock!TypeOK /\ MaxSeq \in Nat
  BY DockBounds DEF DockInv
<1>1. /\ seq[s] \in Nat /\ seq[s] < MaxSeq /\ seq'[s] = seq[s] + 1
      /\ \A t \in Sessions : t # s => seq'[t] = seq[t]
      /\ \A t \in Sessions : seq[t] \in Nat /\ seq'[t] \in Nat /\ seq[t] <= seq'[t]
  BY <1>0, DockTypes DEF Dock!TypeOK
<1>2. Dock!TypeOK'
  BY <1>0, <1>1, DockBounds DEF Dock!TypeOK
<1>3. Dock!ShownIsWhole'
  BY <1>0, <1>1, DockTypes DEF DockInv, Dock!ShownIsWhole, Dock!Shows
<1>4. Dock!ReadingHasCall'
  BY DEF DockInv, Dock!ReadingHasCall
<1>5. NothingMadeUp'
  <2>1. \A e \in flight' : e[2] = MaxSeq + 1 \/ e[2] <= seq'[e[1]]
    <3> SUFFICES ASSUME NEW e \in flight' PROVE e[2] = MaxSeq + 1 \/ e[2] <= seq'[e[1]]
      OBVIOUS
    <3>1. CASE e = <<s, seq'[s]>>
      BY <1>1, <3>1
    <3>2. CASE e \in flight
      BY <1>0, <1>1, <3>2, DockTypes DEF DockInv, NothingMadeUp
    <3> QED BY <3>1, <3>2
  <2>2. \A c \in dockCalls : c.seq <= seq'[c.session]
    BY <1>0, <1>1, DockTypes DEF DockInv, NothingMadeUp
  <2>3. \A c \in dockCalls : c.kind = "start" => seq'[c.session] = 0
    BY <1>0, <1>1, DockTypes DEF DockInv, NothingMadeUp
  <2> QED BY <2>1, <2>2, <2>3 DEF NothingMadeUp
<1>6. NothingMissed'
  <2>1. ASSUME NEW t \in Sessions, NEW n \in Nat, Follows(t, n)
        PROVE  (\A m \in n + 1..seq'[t] : <<t, m>> \in flight')
               /\ (t \notin held => <<t, MaxSeq + 1>> \in flight')
    <3> SUFFICES ASSUME NEW m \in n + 1..seq'[t] PROVE <<t, m>> \in flight'
      BY <2>1 DEF Follows
    <3>1. CASE t = s /\ m = seq'[s]
      BY <3>1
    <3>2. CASE ~(t = s /\ m = seq'[s])
      <4>1. m \in n + 1..seq[t]
        BY <1>1, <3>2
      <4> QED BY <2>1, <4>1 DEF Follows
    <3> QED BY <3>1, <3>2
  <2>2. \A c \in dockCalls : c.session \in Sessions /\ c.seq \in Nat
    BY <1>0, DockTypes
  <2>3. dock.seq \in Nat
    BY <1>0, DockTypes
  <2> QED BY <2>1, <2>2, <2>3 DEF DockInv, NothingMissed, Follows, Rereading, Dock!Shows
<1> QED BY <1>2, <1>3, <1>4, <1>5, <1>6 DEF DockInv

(* A number past the last of a conversation tells of its end. *)
LEMMA DeleteInv == ASSUME DockInv, NEW s \in Sessions, Dock!Delete(s) PROVE DockInv'
<1> USE DEF Dock!Delete
<1>0. Dock!TypeOK /\ MaxSeq \in Nat /\ Dock!Gone = MaxSeq + 1
  BY DockBounds DEF DockInv
<1>2. Dock!TypeOK'
  BY <1>0 DEF Dock!TypeOK
<1>3. Dock!ShownIsWhole' /\ Dock!ReadingHasCall'
  BY DEF DockInv, Dock!ShownIsWhole, Dock!Shows, Dock!ReadingHasCall
<1>4. NothingMadeUp'
  BY <1>0 DEF DockInv, NothingMadeUp
<1>5. NothingMissed'
  <2>1. \A t \in Sessions : \A n \in Nat : Follows(t, n) => Follows(t, n)'
    BY <1>0 DEF Follows
  <2>2. \A c \in dockCalls : c.session \in Sessions /\ c.seq \in Nat
    BY <1>0, DockTypes
  <2>3. dock.seq \in Nat
    BY <1>0, DockTypes
  <2>4. \A t \in Sessions : (t \notin held => <<t, MaxSeq + 1>> \in flight)
                               => (t \notin held' => <<t, MaxSeq + 1>> \in flight')
    BY <1>0
  <2>5. \A t \in Sessions : (Dock!Shows(t)' <=> Dock!Shows(t)) /\ (Rereading(t) => Rereading(t)')
    BY DEF Dock!Shows, Rereading
  <2> QED BY <2>1, <2>2, <2>3, <2>4, <2>5 DEF DockInv, NothingMissed, Follows
<1> QED BY <1>2, <1>3, <1>4, <1>5 DEF DockInv

(* An answer is as far as Go is. *)
LEMMA ServeInv == ASSUME DockInv, NEW c \in dockCalls, Dock!Serve(c) PROVE DockInv'
<1> DEFINE s == c.session
<1>0. Dock!TypeOK /\ MaxSeq \in Nat /\ s \in Sessions /\ c.at = "sent" /\ seq[s] \in 0..MaxSeq
  BY DockBounds, DockTypes DEF DockInv, Dock!Serve
<1>1. /\ UNCHANGED <<seq, flight, dock, reading, passed>> /\ held \subseteq held'
      /\ held' \subseteq Sessions /\ lost' \in BOOLEAN /\ (lost => lost')
  <2>1. /\ UNCHANGED <<seq, flight, dock, reading, passed>>
        /\ (held' = held \cup {s} /\ UNCHANGED lost) \/ (UNCHANGED <<held, lost>>)
              \/ (lost' = TRUE /\ UNCHANGED held)
    BY DEF Dock!Serve
  <2>2. lost \in BOOLEAN /\ held \subseteq Sessions
    BY <1>0 DEF Dock!TypeOK
  <2>3. lost' \in BOOLEAN /\ (lost => lost')
    BY <2>1, <2>2
  <2>4. held \subseteq held' /\ held' \subseteq Sessions
    BY <1>0, <2>1, <2>2
  <2> QED BY <2>1, <2>3, <2>4
<1>2. PICK d : /\ dockCalls' = (dockCalls \ {c}) \cup {d}
               /\ \/ d = [c EXCEPT !.at = "answered", !.seq = seq[s]] /\ s \in held'
                  \/ d = [c EXCEPT !.at = "failed"] /\ lost'
  <2>1. CASE c.kind = "start" /\ held' = held \cup {s}
             /\ dockCalls' = (dockCalls \ {c}) \cup {[c EXCEPT !.at = "answered", !.seq = 0]}
    <3>1. seq[s] = 0
      BY <2>1 DEF DockInv, NothingMadeUp
    <3> QED BY <2>1, <3>1
  <2>2. CASE /\ c.kind # "start" /\ s \in held /\ UNCHANGED held
             /\ dockCalls' = (dockCalls \ {c}) \cup {[c EXCEPT !.at = "answered", !.seq = seq[s]]}
    BY <2>2
  <2>3. CASE dockCalls' = (dockCalls \ {c}) \cup {[c EXCEPT !.at = "failed"]} /\ lost'
    BY <2>3
  <2> QED BY <2>1, <2>2, <2>3 DEF Dock!Serve
<1>3. /\ d.no = c.no /\ d.kind = c.kind /\ d.session = s /\ d.at \in {"answered", "failed"}
      /\ d.seq \in {c.seq, seq[s]}
      /\ d \in [no : 1..MaxCalls, kind : {"restore", "open", "start", "reread"}, session : Sessions,
                at : {"sent", "answered", "failed"}, seq : 0..MaxSeq]
  <2>1. c \in [no : 1..MaxCalls, kind : {"restore", "open", "start", "reread"}, session : Sessions,
               at : {"sent", "answered", "failed"}, seq : 0..MaxSeq]
    BY <1>0 DEF Dock!TypeOK
  <2> QED BY <1>0, <1>2, <2>1
<1>4. Dock!TypeOK'
  BY <1>0, <1>1, <1>2, <1>3 DEF Dock!TypeOK
<1>5. Dock!ShownIsWhole'
  BY <1>1 DEF DockInv, Dock!ShownIsWhole, Dock!Shows
<1>6. Dock!ReadingHasCall'
  BY <1>1, <1>2, <1>3 DEF DockInv, Dock!ReadingHasCall
<1>7. NothingMadeUp'
  BY <1>0, <1>1, <1>2, <1>3 DEF DockInv, NothingMadeUp
<1>8. NothingMissed'
  <2> SUFFICES ASSUME ~lost' PROVE NothingMissed'
    BY DEF NothingMissed
  <2>1. ~lost /\ d.at = "answered" /\ d.seq = seq[s] /\ s \in held'
    BY <1>1, <1>2, <1>3
  <2>2. \A e \in dockCalls' : e.at # "failed"
    BY <1>2, <2>1 DEF DockInv, NothingMissed
  <2>3. \A t \in Sessions : \A n \in Nat : Follows(t, n) => Follows(t, n)'
    BY <1>1 DEF Follows
  <2>4. Follows(s, seq[s])'
    BY <1>0, <1>1, <2>1 DEF Follows
  <2>5. ASSUME ~passed', NEW e \in dockCalls', e.at = "answered" PROVE Follows(e.session, e.seq)'
    <3>1. CASE e = d
      <4>1. e.session = s /\ e.seq = seq[s]
        BY <1>3, <2>1, <3>1
      <4> QED BY <1>1, <2>4, <4>1 DEF Follows
    <3>2. CASE e \in dockCalls
      <4>1. e.session \in Sessions /\ e.seq \in Nat
        BY <1>0, <3>2, DockTypes
      <4>2. Follows(e.session, e.seq)
        BY <1>1, <2>1, <2>5, <3>2 DEF DockInv, NothingMissed
      <4> QED BY <2>3, <4>1, <4>2 DEF Follows
    <3> QED BY <1>2, <3>1, <3>2
  <2>6. ASSUME ~passed', NEW t \in Sessions, Dock!Shows(t)'
        PROVE  /\ t \notin held' => <<t, MaxSeq + 1>> \in flight'
               /\ Follows(t, dock.seq)' \/ Rereading(t)'
    <3>1. /\ t \notin held => <<t, MaxSeq + 1>> \in flight
          /\ Follows(t, dock.seq) \/ Rereading(t)
      BY <1>1, <2>1, <2>6 DEF DockInv, NothingMissed, Dock!Shows
    <3>2. Rereading(t) => Rereading(t)'
      BY <1>2, <1>3, <2>1 DEF Rereading
    <3>3. dock.seq \in Nat
      BY <1>0, DockTypes
    <3> QED BY <1>1, <2>3, <3>1, <3>2, <3>3 DEF Follows
  <2> QED BY <2>2, <2>5, <2>6 DEF NothingMissed
<1> QED BY <1>4, <1>5, <1>6, <1>7, <1>8 DEF DockInv

--------------------------------------------------------------------------------
(* What the window hears. *)

(* A call added under a number of its own. *)
LEMMA CallAdds ==
    ASSUME Dock!TypeOK, NEW kind \in {"open", "start", "reread"}, NEW s \in Sessions,
           Dock!Call(kind, s)
    PROVE  \E d : /\ dockCalls' = dockCalls \cup {d}
                  /\ d.kind = kind /\ d.session = s /\ d.at = "sent" /\ d.seq = 0
                  /\ d \in [no : 1..MaxCalls, kind : {"restore", "open", "start", "reread"},
                            session : Sessions, at : {"sent", "answered", "failed"}, seq : 0..MaxSeq]
                  /\ \A e \in dockCalls : e.no # d.no
<1>1. PICK no \in 1..MaxCalls :
          /\ \A c \in dockCalls : c.no # no
          /\ dockCalls' = dockCalls \cup {[no |-> no, kind |-> kind, session |-> s, at |-> "sent", seq |-> 0]}
  BY DEF Dock!Call, Dock!Fresh
<1> WITNESS [no |-> no, kind |-> kind, session |-> s, at |-> "sent", seq |-> 0]
<1> QED BY <1>1, DockBounds

(* An event that is taken out of the flight leaves the rest to follow. *)
LEMMA StillFollows ==
    ASSUME Dock!TypeOK, NEW e \in flight, flight' = flight \ {e}, UNCHANGED <<held, seq>>,
           NEW t \in Sessions, NEW n \in 0..MaxSeq, Follows(t, n)
    PROVE  /\ e[1] # t \/ e[2] <= n => Follows(t, n)'
           /\ e[1] = t /\ e[2] = n + 1 /\ e[2] # MaxSeq + 1 => Follows(t, n + 1)'
<1>1. e = <<e[1], e[2]>> /\ e[2] \in Nat /\ MaxSeq \in Nat /\ seq[t] \in 0..MaxSeq
  BY DockTypes, DockBounds
<1>2. ASSUME e[1] # t \/ e[2] <= n PROVE Follows(t, n)'
  <2>1. \A m \in n + 1..seq[t] : <<t, m>> # e
    BY <1>1, <1>2
  <2>2. <<t, MaxSeq + 1>> # e
    BY <1>1, <1>2
  <2> QED BY <2>1, <2>2 DEF Follows
<1>3. ASSUME e[1] = t, e[2] = n + 1, e[2] # MaxSeq + 1 PROVE Follows(t, n + 1)'
  <2>1. \A m \in n + 1 + 1..seq[t] : <<t, m>> # e /\ m \in n + 1..seq[t]
    BY <1>1, <1>3
  <2>2. <<t, MaxSeq + 1>> # e
    BY <1>1, <1>3
  <2> QED BY <2>1, <2>2 DEF Follows
<1> QED BY <1>2, <1>3

(* What an event does to the dock and its calls. *)
LEMMA ArriveCases ==
    ASSUME DockInv, NEW e \in flight, Dock!Arrive(e)
    PROVE  /\ flight' = flight \ {e} /\ UNCHANGED <<held, seq, lost>>
           /\ passed' = (passed \/ Dock!Passes(e[1], e[2]))
           /\ \/ /\ ~Dock!Shows(e[1]) \/ e[2] <= dock.seq
                 /\ UNCHANGED <<dock, reading, dockCalls>>
              \/ /\ Dock!Shows(e[1]) /\ dock' = Dock!NoDock
                 /\ UNCHANGED <<reading, dockCalls>>
              \/ /\ Dock!Shows(e[1]) /\ e[2] = dock.seq + 1 /\ e[2] # MaxSeq + 1
                 /\ dock' = [dock EXCEPT !.seq = e[2], !.shown = @ \cup {e[2]}]
                 /\ UNCHANGED <<reading, dockCalls>>
              \/ /\ Dock!Shows(e[1]) /\ e[2] > dock.seq + 1 /\ e[2] # MaxSeq + 1 /\ reading
                 /\ UNCHANGED <<dock, reading, dockCalls>>
              \/ /\ Dock!Shows(e[1]) /\ e[2] > dock.seq + 1 /\ e[2] # MaxSeq + 1 /\ ~reading
                 /\ reading' = TRUE /\ UNCHANGED dock /\ Dock!Call("reread", e[1])
<1>1. e[2] \in Nat /\ dock.seq \in Nat /\ Dock!Gone = MaxSeq + 1 /\ MaxSeq \in Nat
  BY DockTypes, DockBounds DEF DockInv
<1>2. flight' = flight \ {e} /\ UNCHANGED <<held, seq, lost>> /\ passed' = (passed \/ Dock!Passes(e[1], e[2]))
  BY DEF Dock!Arrive
<1>3. CASE ~Dock!Shows(e[1]) /\ UNCHANGED <<dock, reading, dockCalls>>
  BY <1>2, <1>3
<1>4. CASE Dock!Shows(e[1]) /\ e[2] = Dock!Gone /\ dock' = Dock!NoDock /\ UNCHANGED <<reading, dockCalls>>
  BY <1>2, <1>4
<1>5. CASE Dock!Shows(e[1]) /\ ~Dock!Applies(e[2]) /\ UNCHANGED <<dock, reading, dockCalls>>
  BY <1>1, <1>2, <1>5 DEF Dock!Applies
<1>6. CASE Dock!Shows(e[1]) /\ e[2] # Dock!Gone /\ Dock!IsNext(e[2]) /\ Dock!Apply(e[2])
  BY <1>1, <1>2, <1>6 DEF Dock!IsNext, Dock!Apply
<1>7. CASE /\ Dock!Shows(e[1]) /\ e[2] # Dock!Gone /\ Dock!Applies(e[2]) /\ ~Dock!IsNext(e[2])
           /\ Dock!Reread(e[1])
  <2>1. e[2] > dock.seq + 1
    BY <1>1, <1>7 DEF Dock!Applies, Dock!IsNext
  <2>2. CASE reading
    BY <1>1, <1>2, <1>7, <2>1, <2>2 DEF Dock!Reread
  <2>3. CASE ~reading
    BY <1>1, <1>2, <1>7, <2>1, <2>3 DEF Dock!Reread
  <2> QED BY <2>2, <2>3
<1> QED BY <1>3, <1>4, <1>5, <1>6, <1>7 DEF Dock!Arrive

LEMMA ArriveInv == ASSUME DockInv, NEW e \in flight, Dock!Arrive(e) PROVE DockInv'
<1>1. /\ Dock!TypeOK /\ MaxSeq \in Nat /\ e[1] \in Sessions /\ e[2] \in 1..MaxSeq + 1
      /\ dock.seq \in 0..MaxSeq /\ dock.session \in SUBSET Sessions /\ dock.shown = 1..dock.seq
      /\ e[2] # MaxSeq + 1 => e[2] <= seq[e[1]] /\ e[2] <= MaxSeq
  BY DockBounds, DockTypes DEF DockInv, Dock!ShownIsWhole, NothingMadeUp
<1>2. flight' = flight \ {e} /\ UNCHANGED <<held, seq, lost>>
      /\ passed' = (passed \/ Dock!Passes(e[1], e[2]))
  BY ArriveCases
<1>3. /\ dock' \in [session : SUBSET Sessions, seq : 0..MaxSeq, shown : SUBSET (1..MaxSeq)]
      /\ dock'.shown = 1..dock'.seq
      /\ \A s \in Sessions : Dock!Shows(s)' => dock'.seq <= seq[s]
  <2>1. CASE dock' = dock
    BY <1>1, <2>1 DEF DockInv, Dock!ShownIsWhole, Dock!TypeOK, Dock!Shows
  <2>2. CASE dock' = Dock!NoDock
    BY <1>1, <2>2 DEF Dock!NoDock, Dock!Shows
  <2>3. CASE /\ Dock!Shows(e[1]) /\ e[2] = dock.seq + 1 /\ e[2] # MaxSeq + 1
             /\ dock' = [dock EXCEPT !.seq = e[2], !.shown = @ \cup {e[2]}]
    <3>1. dock \in [session : SUBSET Sessions, seq : 0..MaxSeq, shown : SUBSET (1..MaxSeq)]
      BY <1>1 DEF Dock!TypeOK
    <3>2. /\ dock'.session = dock.session /\ dock'.seq = dock.seq + 1
          /\ dock'.shown = (1..dock.seq) \cup {dock.seq + 1}
          /\ dock' = [session |-> dock'.session, seq |-> dock'.seq, shown |-> dock'.shown]
      BY <1>1, <2>3, <3>1
    <3>5. dock'.session \in SUBSET Sessions /\ dock'.seq \in 0..MaxSeq /\ dock'.shown \in SUBSET (1..MaxSeq)
      BY <1>1, <2>3, <3>2
    <3>6. dock' \in [session : SUBSET Sessions, seq : 0..MaxSeq, shown : SUBSET (1..MaxSeq)]
      BY <3>2, <3>5
    <3>3. (1..dock.seq) \cup {dock.seq + 1} = 1..dock.seq + 1
      BY <1>1
    <3>4. \A s \in Sessions : Dock!Shows(s)' => s = e[1]
      BY <2>3, <3>2 DEF Dock!Shows
    <3> QED BY <1>1, <2>3, <3>2, <3>3, <3>4, <3>6
  <2> QED BY <2>1, <2>2, <2>3, ArriveCases
<1>4. \/ UNCHANGED dockCalls
      \/ Dock!Call("reread", e[1])
  BY ArriveCases
<1>5. /\ dockCalls \subseteq dockCalls'
      /\ \A c \in dockCalls' : \/ c \in dockCalls
                               \/ c.kind = "reread" /\ c.session = e[1] /\ c.at = "sent" /\ c.seq = 0
      /\ dockCalls' \subseteq [no : 1..MaxCalls, kind : {"restore", "open", "start", "reread"},
                               session : Sessions, at : {"sent", "answered", "failed"}, seq : 0..MaxSeq]
      /\ \A c, d \in dockCalls' : c.no = d.no => c = d
  <2>1. CASE UNCHANGED dockCalls
    BY <1>1, <2>1 DEF Dock!TypeOK
  <2>2. CASE Dock!Call("reread", e[1])
    BY <1>1, <2>2, CallAdds DEF Dock!TypeOK
  <2> QED BY <1>4, <2>1, <2>2
<1>6. Dock!TypeOK'
  <2>1. passed' \in BOOLEAN
    BY <1>1, <1>2 DEF Dock!TypeOK
  <2>2. reading' \in BOOLEAN
    BY <1>1, ArriveCases DEF Dock!TypeOK
  <2> QED BY <1>1, <1>2, <1>3, <1>5, <2>1, <2>2 DEF Dock!TypeOK
<1>7. Dock!ShownIsWhole'
  BY <1>2, <1>3 DEF Dock!ShownIsWhole
<1>8. Dock!ReadingHasCall'
  <2>1. CASE UNCHANGED reading
    BY <1>5, <2>1 DEF DockInv, Dock!ReadingHasCall
  <2>2. CASE Dock!Call("reread", e[1])
    BY <1>1, <2>2, CallAdds DEF Dock!ReadingHasCall
  <2> QED BY <2>1, <2>2, ArriveCases
<1>9. NothingMadeUp'
  BY <1>1, <1>2, <1>5, DockTypes DEF DockInv, NothingMadeUp
<1>10. NothingMissed'
  <2> SUFFICES ASSUME ~lost' PROVE NothingMissed'
    BY DEF NothingMissed
  <2>1. ~lost /\ \A c \in dockCalls' : c.at # "failed"
    BY <1>2, <1>5 DEF DockInv, NothingMissed
  <2> SUFFICES ASSUME ~passed' PROVE NothingMissed'
    BY <2>1 DEF NothingMissed
  <2>2. ~passed /\ ~Dock!Passes(e[1], e[2])
    BY <1>2
  <2>3. \A t \in Sessions : \A n \in 0..MaxSeq : Follows(t, n) =>
             /\ e[1] # t \/ e[2] <= n => Follows(t, n)'
             /\ e[1] = t /\ e[2] = n + 1 /\ e[2] # MaxSeq + 1 => Follows(t, n + 1)'
    BY <1>1, <1>2, StillFollows
  <2>4. ASSUME NEW c \in dockCalls', c.at = "answered" PROVE Follows(c.session, c.seq)'
    <3>1. c \in dockCalls /\ c.session \in Sessions /\ c.seq \in 0..MaxSeq
      BY <1>1, <1>5, <2>4, DockTypes
    <3>2. Follows(c.session, c.seq)
      BY <2>1, <2>2, <2>4, <3>1 DEF DockInv, NothingMissed
    <3>3. e[1] # c.session \/ e[2] <= c.seq
      BY <1>1, <2>2, <2>4, <3>1 DEF Dock!Passes
    <3> QED BY <2>3, <3>1, <3>2, <3>3
  <2>5. ASSUME NEW t \in Sessions, Dock!Shows(t)'
        PROVE  /\ t \notin held' => <<t, MaxSeq + 1>> \in flight'
               /\ Follows(t, dock.seq)' \/ Rereading(t)'
    <3>1. Rereading(t) => Rereading(t)'
      BY <1>5 DEF Rereading
    <3>2. CASE dock' = dock /\ ~Dock!Shows(e[1])
      <4>1. Dock!Shows(t) /\ t # e[1]
        BY <2>5, <3>2 DEF Dock!Shows
      <4>2. Follows(t, dock.seq) => Follows(t, dock.seq)'
        BY <1>1, <2>3, <3>2, <4>1 DEF Follows
      <4>3. <<t, MaxSeq + 1>> # e
        BY <4>1
      <4> QED BY <1>2, <2>1, <2>2, <3>1, <4>1, <4>2, <4>3 DEF DockInv, NothingMissed
    <3>3. CASE dock' = dock /\ Dock!Shows(e[1]) /\ e[2] # MaxSeq + 1
               /\ (e[2] <= dock.seq \/ (e[2] > dock.seq + 1 /\ Rereading(e[1])'))
      <4>1. Dock!Shows(t) /\ t = e[1]
        BY <2>5, <3>3 DEF Dock!Shows
      <4>2. e[2] <= dock.seq /\ Follows(t, dock.seq) => Follows(t, dock.seq)'
        BY <1>1, <2>3, <3>3, <4>1 DEF Follows
      <4>3. <<t, MaxSeq + 1>> # e
        BY <3>3
      <4> QED BY <1>2, <2>1, <2>2, <3>1, <3>3, <4>1, <4>2, <4>3 DEF DockInv, NothingMissed
    <3>4. CASE /\ Dock!Shows(e[1]) /\ e[2] = dock.seq + 1 /\ e[2] # MaxSeq + 1
               /\ dock' = [dock EXCEPT !.seq = e[2], !.shown = @ \cup {e[2]}]
      <4>1. Dock!Shows(t) /\ t = e[1] /\ dock'.seq = dock.seq + 1
        BY <1>1, <2>5, <3>4 DEF Dock!Shows, Dock!TypeOK
      <4>2. Follows(t, dock.seq) => Follows(t, dock.seq)'
        BY <1>1, <2>3, <3>4, <4>1 DEF Follows
      <4>3. <<t, MaxSeq + 1>> # e
        BY <3>4
      <4> QED BY <1>2, <2>1, <2>2, <3>1, <4>1, <4>2, <4>3 DEF DockInv, NothingMissed
    <3>5. CASE dock' = Dock!NoDock
      BY <2>5, <3>5 DEF Dock!NoDock, Dock!Shows
    <3>6. CASE Dock!Shows(e[1]) /\ e[2] > dock.seq + 1 /\ e[2] # MaxSeq + 1 /\ reading /\ dock' = dock
      <4>1. PICK c \in dockCalls : c.kind = "reread"
        BY <3>6 DEF DockInv, Dock!ReadingHasCall
      <4>2. c.session = e[1]
        BY <2>2, <3>6, <4>1 DEF Dock!Passes
      <4>3. Rereading(e[1])'
        BY <1>5, <2>1, <4>1, <4>2 DEF Rereading
      <4> QED BY <3>3, <3>6, <4>3
    <3>7. CASE Dock!Shows(e[1]) /\ e[2] > dock.seq + 1 /\ e[2] # MaxSeq + 1 /\ dock' = dock
               /\ Dock!Call("reread", e[1])
      <4>1. Rereading(e[1])'
        <5>1. PICK d : dockCalls' = dockCalls \cup {d} /\ d.kind = "reread" /\ d.session = e[1] /\ d.at = "sent"
          BY <1>1, <3>7, CallAdds
        <5>2. d \in dockCalls' /\ d.at # "failed"
          BY <5>1
        <5> QED BY <5>1, <5>2 DEF Rereading
      <4> QED BY <3>3, <3>7, <4>1
    <3>8. CASE dock' = dock /\ Dock!Shows(e[1]) /\ e[2] <= dock.seq
      <4>1. e[2] # MaxSeq + 1
        BY <1>1, <3>8
      <4> QED BY <3>3, <3>8, <4>1
    <3> QED BY <3>2, <3>4, <3>5, <3>6, <3>7, <3>8, ArriveCases
  <2> QED BY <2>1, <2>4, <2>5 DEF NothingMissed
<1> QED BY <1>6, <1>7, <1>8, <1>9, <1>10 DEF DockInv

(* A lost event, and the window's own calls. *)
LEMMA LoseInv == ASSUME DockInv, NEW e \in flight, Dock!Lose(e) PROVE DockInv'
<1> USE DEF Dock!Lose
<1>1. Dock!TypeOK'
  BY DEF DockInv, Dock!TypeOK
<1>2. Dock!ShownIsWhole' /\ Dock!ReadingHasCall' /\ NothingMadeUp' /\ NothingMissed'
  BY DEF DockInv, Dock!ShownIsWhole, Dock!Shows, Dock!ReadingHasCall, NothingMadeUp, NothingMissed
<1> QED BY <1>1, <1>2 DEF DockInv

LEMMA AskInv ==
    ASSUME DockInv, NEW s \in Sessions, NEW kind \in {"open", "start"}, Dock!Call(kind, s),
           kind = "start" => seq[s] = 0,
           UNCHANGED <<held, seq, flight, dock, reading, lost, passed>>
    PROVE  DockInv'
<1>1. PICK d : /\ dockCalls' = dockCalls \cup {d}
               /\ d.kind = kind /\ d.session = s /\ d.at = "sent" /\ d.seq = 0
               /\ d \in [no : 1..MaxCalls, kind : {"restore", "open", "start", "reread"},
                         session : Sessions, at : {"sent", "answered", "failed"}, seq : 0..MaxSeq]
               /\ \A e \in dockCalls : e.no # d.no
  BY CallAdds DEF DockInv
<1>2. Dock!TypeOK'
  BY <1>1 DEF DockInv, Dock!TypeOK
<1>3. Dock!ShownIsWhole' /\ Dock!ReadingHasCall'
  BY <1>1 DEF DockInv, Dock!ShownIsWhole, Dock!Shows, Dock!ReadingHasCall
<1>4. NothingMadeUp'
  <2>1. seq[s] \in 0..MaxSeq /\ MaxSeq \in Nat
    BY DockTypes, DockBounds DEF DockInv
  <2> QED BY <1>1, <2>1 DEF DockInv, NothingMadeUp
<1>5. NothingMissed'
  <2>1. \A t \in Sessions : Rereading(t) => Rereading(t)'
    BY <1>1 DEF Rereading
  <2> QED BY <1>1, <2>1 DEF DockInv, NothingMissed, Follows, Dock!Shows
<1> QED BY <1>2, <1>3, <1>4, <1>5 DEF DockInv

(* An empty dock shows nothing. *)
LEMMA StartOverInv == ASSUME DockInv, Dock!StartOver PROVE DockInv'
<1> USE DEF Dock!StartOver, Dock!NoDock
<1>1. Dock!TypeOK' /\ Dock!ShownIsWhole'
  BY DockBounds DEF DockInv, Dock!TypeOK, Dock!ShownIsWhole, Dock!Shows
<1>2. Dock!ReadingHasCall' /\ NothingMadeUp'
  BY DEF DockInv, Dock!ReadingHasCall, NothingMadeUp
<1>3. NothingMissed'
  <2>1. \A c \in dockCalls : Follows(c.session, c.seq) => Follows(c.session, c.seq)'
    BY DEF Follows
  <2> QED BY <2>1 DEF DockInv, NothingMissed, Dock!Shows
<1> QED BY <1>1, <1>2, <1>3 DEF DockInv

(* The dock takes over where an answer is, or stays. *)
LEMMA DockReplyInv == ASSUME DockInv, NEW c \in dockCalls, Dock!Reply(c) PROVE DockInv'
<1> DEFINE s == c.session
<1>1. /\ Dock!TypeOK /\ s \in Sessions /\ c.seq \in 0..MaxSeq /\ MaxSeq \in Nat /\ c.at = "answered"
      /\ c.seq <= seq[s]
  BY DockBounds, DockTypes DEF DockInv, NothingMadeUp, Dock!Reply
<1>2. /\ dockCalls' = dockCalls \ {c} /\ UNCHANGED <<held, seq, flight, lost, passed>>
      /\ c.kind = "reread" => reading' = FALSE
      /\ c.kind # "reread" => UNCHANGED reading
      /\ \/ dock' = dock /\ (c.kind = "reread" => ~Dock!Shows(s))
         \/ dock' = [session |-> {s}, seq |-> c.seq, shown |-> 1..c.seq]
  <2>1. CASE c.kind = "reread"
    BY <2>1 DEF Dock!Reply, Dock!Opened
  <2>2. CASE c.kind # "reread"
    BY <2>2 DEF Dock!Reply, Dock!Opened
  <2> QED BY <2>1, <2>2
<1>3. Dock!TypeOK'
  <2>1. dock' \in [session : SUBSET Sessions, seq : 0..MaxSeq, shown : SUBSET (1..MaxSeq)]
    <3>1. 1..c.seq \subseteq 1..MaxSeq
      BY <1>1
    <3> QED BY <1>1, <1>2, <3>1 DEF Dock!TypeOK
  <2>2. reading' \in BOOLEAN
    <3>1. reading \in BOOLEAN
      BY <1>1 DEF Dock!TypeOK
    <3>2. CASE c.kind = "reread"
      BY <1>2, <3>2
    <3>3. CASE c.kind # "reread"
      BY <1>2, <3>1, <3>3
    <3> QED BY <3>2, <3>3
  <2> QED BY <1>1, <1>2, <2>1, <2>2 DEF Dock!TypeOK
<1>4. Dock!ShownIsWhole'
  <2>1. CASE dock' = dock
    BY <1>2, <2>1 DEF DockInv, Dock!ShownIsWhole, Dock!Shows
  <2>2. CASE dock' = [session |-> {s}, seq |-> c.seq, shown |-> 1..c.seq]
    BY <1>1, <1>2, <2>2 DEF Dock!ShownIsWhole, Dock!Shows
  <2> QED BY <1>2, <2>1, <2>2
<1>5. Dock!ReadingHasCall'
  BY <1>2 DEF DockInv, Dock!ReadingHasCall
<1>6. NothingMadeUp'
  BY <1>2 DEF DockInv, NothingMadeUp
<1>7. NothingMissed'
  <2> SUFFICES ASSUME ~lost' PROVE NothingMissed'
    BY DEF NothingMissed
  <2>1. ~lost /\ \A d \in dockCalls' : d.at # "failed"
    BY <1>2 DEF DockInv, NothingMissed
  <2> SUFFICES ASSUME ~passed' PROVE NothingMissed'
    BY <2>1 DEF NothingMissed
  <2>2. \A d \in dockCalls : d.at = "answered" => Follows(d.session, d.seq)
    BY <1>2, <2>1 DEF DockInv, NothingMissed
  <2>3. \A d \in dockCalls' : d.at = "answered" => Follows(d.session, d.seq)'
    BY <1>2, <2>2 DEF Follows
  <2>4. ASSUME NEW t \in Sessions, Dock!Shows(t)'
        PROVE  /\ t \notin held' => <<t, MaxSeq + 1>> \in flight'
               /\ Follows(t, dock.seq)' \/ Rereading(t)'
    <3>1. CASE dock' = dock /\ (c.kind = "reread" => ~Dock!Shows(s))
      <4>1. Dock!Shows(t) /\ (c.kind = "reread" => t # s)
        BY <2>4, <3>1 DEF Dock!Shows
      <4>2. Rereading(t) => Rereading(t)'
        BY <1>2, <4>1 DEF Rereading
      <4>3. Follows(t, dock.seq) => Follows(t, dock.seq)'
        BY <1>2, <3>1 DEF Follows
      <4> QED BY <1>2, <2>1, <4>1, <4>2, <4>3 DEF DockInv, NothingMissed
    <3>2. CASE dock' = [session |-> {s}, seq |-> c.seq, shown |-> 1..c.seq]
      <4>1. t = s /\ dock'.seq = c.seq
        BY <2>4, <3>2 DEF Dock!Shows
      <4>2. Follows(s, c.seq)
        BY <1>1, <2>2
      <4> QED BY <1>2, <4>1, <4>2 DEF Follows
    <3> QED BY <1>2, <3>1, <3>2
  <2> QED BY <2>1, <2>3, <2>4 DEF NothingMissed
<1> QED BY <1>3, <1>4, <1>5, <1>6, <1>7 DEF DockInv

(* A call that failed is over, and something was lost. *)
LEMMA DockFailedInv == ASSUME DockInv, NEW c \in dockCalls, Dock!Failed(c) PROVE DockInv'
<1> USE DEF Dock!Failed
<1>1. lost
  BY DEF DockInv, NothingMissed
<1>2. reading' \in BOOLEAN
  BY DEF DockInv, Dock!TypeOK
<1>3. Dock!TypeOK' /\ Dock!ShownIsWhole' /\ NothingMadeUp'
  BY <1>2 DEF DockInv, Dock!TypeOK, Dock!ShownIsWhole, Dock!Shows, NothingMadeUp
<1>4. Dock!ReadingHasCall'
  BY DEF DockInv, Dock!ReadingHasCall
<1>5. NothingMissed'
  BY <1>1 DEF NothingMissed
<1> QED BY <1>3, <1>4, <1>5 DEF DockInv

(* Every step keeps the dock true. *)
LEMMA DockNextInv == ASSUME DockInv, Dock!Next PROVE DockInv'
<1>1. ASSUME NEW s \in Sessions, Dock!Emit(s) PROVE DockInv'
  BY <1>1, EmitInv
<1>2. ASSUME NEW s \in Sessions, Dock!Open(s) PROVE DockInv'
  BY <1>2, AskInv DEF Dock!Open
<1>3. ASSUME NEW s \in Sessions, Dock!Begin(s) PROVE DockInv'
  BY <1>3, AskInv DEF Dock!Begin
<1>4. ASSUME NEW s \in Sessions, Dock!Delete(s) PROVE DockInv'
  BY <1>4, DeleteInv
<1>5. CASE Dock!StartOver
  BY <1>5, StartOverInv
<1>6. ASSUME NEW e \in flight, Dock!Arrive(e) \/ Dock!Lose(e) PROVE DockInv'
  BY <1>6, ArriveInv, LoseInv
<1>7. ASSUME NEW c \in dockCalls, Dock!Serve(c) \/ Dock!Reply(c) \/ Dock!Failed(c) PROVE DockInv'
  BY <1>7, ServeInv, DockReplyInv, DockFailedInv
<1> QED BY <1>1, <1>2, <1>3, <1>4, <1>5, <1>6, <1>7 DEF Dock!Next, Dock!History, Dock!AgentDock

(* What the dock is made of keeps still while another part runs. *)
LEMMA DockStays == ASSUME DockInv, UNCHANGED dockVars PROVE DockInv'
BY DEF dockVars, DockInv, Dock!TypeOK, Dock!ShownIsWhole, Dock!Shows, Dock!ReadingHasCall,
       NothingMadeUp, NothingMissed, Follows, Rereading

--------------------------------------------------------------------------------
(* The settings. *)

LEMMA SettingsBounds == MaxMade \in Nat \ {0} /\ MaxReads \in Nat \ {0}
BY SettingsAssumption

SaveRecord == [doc : Settings!Docs, mode : {"preserve", "replace", "clear"}, made : 0..MaxMade,
               at : {"queued", "resolved", "stored", "failed"}]
Waiter == [at : {"rest", "settling", "sent", "stored", "failed"}, left : Nat, since : Nat,
           mode : {"none", "reset", "replace", "clear"}, value : 0..MaxMade]

(* The writes that are not over, and those who wait for them. *)
Chained(q) == q \in Seq(SaveRecord) /\ \A i \in 2..Len(q) : q[i].at = "queued"
ChainTyped == Chained(chain)
WaitersTyped ==
    /\ keys \in Waiter /\ keys.at \in {"rest", "settling", "sent"}
    /\ keys.at = "settling" => keys.mode \in {"replace", "clear"}
    /\ reset \in Waiter

(* What a reset waits for is the front of the chain; what was changed since it was asked
   for is behind. *)
Later(since, n) == \A i \in n + 1..Len(chain) : chain[i].mode = "preserve" => chain[i].made > since

ResetWaits ==
    reset.at # "rest" =>
        /\ reset.since < made
        /\ Settings!Due => due.made > reset.since
        /\ reset.at = "settling" => reset.left \in 1..Len(chain) /\ Later(reset.since, reset.left)
        /\ reset.at # "settling" => Later(reset.since, 0)

(* While the window shows something else than is stored, something is under way that
   ends in a notice of Go or in a read. *)
Unsent == \E i \in 1..Len(chain) : chain[i].at \in {"queued", "resolved"}
SomethingComes == shown = kept \/ events > 0 \/ Settings!Due \/ reads # {} \/ Unsent

SettingsInv ==
    Settings!TypeOK /\ ChainTyped /\ WaitersTyped /\ ResetWaits /\ (failed \/ crossed \/ SomethingComes)

(* It says what the run checks. *)
LEMMA SettingsInvImplies == SettingsInv => Settings!ShownIsStored /\ Settings!ResetIsAfterSaves
<1> SUFFICES ASSUME SettingsInv PROVE Settings!ShownIsStored /\ Settings!ResetIsAfterSaves
  OBVIOUS
<1>1. Settings!ShownIsStored
  <2> SUFFICES ASSUME Settings!Quiet, ~failed, ~crossed PROVE shown = kept
    BY DEF Settings!ShownIsStored
  <2>1. SomethingComes
    BY DEF SettingsInv
  <2>2. events = 0 /\ ~Settings!Due /\ reads = {} /\ chain = <<>>
    BY DEF Settings!Quiet
  <2>3. ~Unsent
    <3>1. Len(chain) = 0
      BY <2>2
    <3> QED BY <3>1 DEF Unsent
  <2> QED BY <2>1, <2>2, <2>3 DEF SomethingComes
<1>2. Settings!ResetIsAfterSaves
  <2> SUFFICES ASSUME reset.at \in {"sent", "stored"}
               PROVE  /\ Settings!Due => due.made > reset.since
                      /\ \A i \in 1..Len(chain) : chain[i].mode = "preserve" => chain[i].made > reset.since
    BY DEF Settings!ResetIsAfterSaves
  <2>1. (Settings!Due => due.made > reset.since) /\ Later(reset.since, 0)
    BY DEF SettingsInv, ResetWaits
  <2>2. 0 + 1 = 1
    OBVIOUS
  <2> QED BY <2>1, <2>2 DEF Later
<1> QED BY <1>1, <1>2

(* A typed chain is what the type invariant asks of it. *)
LEMMA ChainIsTyped ==
    ASSUME ChainTyped
    PROVE  /\ \A i \in 1..Len(chain) : chain[i] \in SaveRecord
           /\ Len(chain) \in Nat
BY DEF ChainTyped, Chained

(* The other variables of the settings. *)
RestTyped ==
    /\ kept \in Settings!Docs /\ shown \in Settings!Docs /\ made \in 1..MaxMade
    /\ due \in [made : 0..MaxMade, doc : Settings!Docs]
    /\ tray \in [made : 0..MaxMade, doc : Settings!Docs]
    /\ reads \subseteq [no : 1..MaxReads, at : {"sent", "read"}, doc : Settings!Docs]
    /\ events \in Nat /\ lastOk \in BOOLEAN /\ failed \in BOOLEAN /\ crossed \in BOOLEAN

LEMMA SettingsTyped == ChainTyped => (Settings!TypeOK <=> RestTyped)
<1> SUFFICES ASSUME ChainTyped PROVE Settings!TypeOK <=> RestTyped
  OBVIOUS
<1>1. /\ \A i \in 1..Len(chain) : chain[i] \in SaveRecord
      /\ \A i \in 2..Len(chain) : chain[i].at = "queued"
  BY ChainIsTyped DEF ChainTyped, Chained
<1> QED BY <1>1 DEF Settings!TypeOK, RestTyped, SaveRecord

LEMMA SettingsTypedNext == ChainTyped' => (Settings!TypeOK' <=> RestTyped')
BY SettingsTyped, PTL

LEMMA NoDocTyped ==
    /\ Settings!Default \in Settings!Docs /\ Settings!NoDoc.made = 0
    /\ Settings!NoDoc \in [made : 0..MaxMade, doc : Settings!Docs]
<1>1. Settings!Default \in Settings!Docs
  BY SettingsBounds DEF Settings!Docs, Settings!Default
<1> QED BY <1>1, SettingsBounds DEF Settings!NoDoc

LEMMA SettingsInitInv == Settings!Init => SettingsInv
<1> SUFFICES ASSUME Settings!Init PROVE SettingsInv
  OBVIOUS
<1> USE DEF Settings!Init
<1>1. kept \in Settings!Docs
  BY SettingsBounds DEF Settings!Docs
<1>2. ChainTyped
  <2>1. chain \in Seq(SaveRecord) /\ Len(chain) = 0
    OBVIOUS
  <2> QED BY <2>1 DEF ChainTyped, Chained
<1>3. RestTyped
  <2>1. reads \subseteq [no : 1..MaxReads, at : {"sent", "read"}, doc : Settings!Docs]
    BY NoDocTyped, SettingsBounds
  <2>2. made \in 1..MaxMade /\ events \in Nat /\ lastOk \in BOOLEAN
    BY SettingsBounds
  <2> QED BY <1>1, <2>1, <2>2, NoDocTyped DEF RestTyped
<1>4. WaitersTyped /\ ResetWaits
  BY SettingsBounds DEF WaitersTyped, Waiter, ResetWaits, Settings!Rest
<1>5. SomethingComes
  BY DEF SomethingComes
<1> QED BY <1>2, <1>3, <1>4, <1>5, SettingsTyped DEF SettingsInv

--------------------------------------------------------------------------------
(* What is put at the end of the chain. *)

(* A chain that was only added to: what is new has not reached Go, and a save among it
   is the one that was due. *)
Extends(q, r) ==
    /\ Chained(r) /\ Len(q) \in Nat /\ Len(r) \in Nat /\ Len(r) >= Len(q)
    /\ \A i \in 1..Len(q) : r[i] = q[i]
    /\ \A i \in Len(q) + 1..Len(r) :
          /\ r[i].at = "queued"
          /\ r[i].mode = "preserve" => Settings!Due /\ r[i].made = due.made

LEMMA ExtendsSelf == ASSUME NEW q, Chained(q) PROVE Extends(q, q)
<1>1. Len(q) \in Nat /\ Len(q) >= Len(q)
  BY DEF Chained
<1>2. Len(q) + 1..Len(q) = {}
  BY <1>1
<1> QED BY <1>1, <1>2 DEF Extends

LEMMA ExtendsAppend ==
    ASSUME NEW q, Chained(q), NEW w \in SaveRecord, w.at = "queued",
           w.mode = "preserve" => Settings!Due /\ w.made = due.made
    PROVE  Extends(q, Append(q, w)) /\ Len(Append(q, w)) = Len(q) + 1
<1>1. /\ Append(q, w) \in Seq(SaveRecord) /\ Len(q) \in Nat /\ Len(Append(q, w)) = Len(q) + 1
      /\ \A i \in 1..Len(q) : Append(q, w)[i] = q[i]
      /\ Append(q, w)[Len(q) + 1] = w
  BY DEF Chained
<1>2. \A i \in 2..Len(q) + 1 : i \in 2..Len(q) \/ i = Len(q) + 1
  BY <1>1
<1>3. \A i \in 2..Len(q) : i \in 1..Len(q)
  BY <1>1
<1>4. Chained(Append(q, w))
  BY <1>1, <1>2, <1>3 DEF Chained
<1>5. \A i \in Len(q) + 1..Len(q) + 1 : i = Len(q) + 1
  BY <1>1
<1> QED BY <1>1, <1>4, <1>5 DEF Extends

LEMMA ExtendsTwice ==
    ASSUME NEW q, NEW r, NEW t, Extends(q, r), Extends(r, t) PROVE Extends(q, t)
<1>1. /\ Len(q) \in Nat /\ Len(r) \in Nat /\ Len(t) \in Nat /\ Len(q) <= Len(r) /\ Len(r) <= Len(t)
      /\ \A i \in 1..Len(q) : i \in 1..Len(r)
      /\ \A i \in Len(q) + 1..Len(t) : i \in Len(r) + 1..Len(t) \/ (i \in Len(q) + 1..Len(r) /\ i \in 1..Len(r))
  BY DEF Extends
<1> QED BY <1>1 DEF Extends

LEMMA EnqueueExtends ==
    ASSUME RestTyped, NEW q, Chained(q)
    PROVE  /\ Extends(q, Settings!Enqueue(q))
           /\ Settings!Due => Len(Settings!Enqueue(q)) = Len(q) + 1
<1>1. CASE Settings!Due
  <2> DEFINE w == Settings!Write(due.doc, "preserve", due.made)
  <2>1. w \in SaveRecord /\ w.at = "queued" /\ w.made = due.made
    BY DEF Settings!Write, SaveRecord, RestTyped
  <2>2. Settings!Enqueue(q) = Append(q, w)
    BY <1>1 DEF Settings!Enqueue
  <2> HIDE DEF w
  <2> QED BY <1>1, <2>1, <2>2, ExtendsAppend
<1>2. CASE ~Settings!Due
  BY <1>2, ExtendsSelf DEF Settings!Enqueue
<1> QED BY <1>1, <1>2

LEMMA WithKeysExtends ==
    ASSUME RestTyped, NEW q, Chained(q), NEW before, NEW after \in Waiter,
           before.at = "settling" /\ after.at = "sent" => after.mode \in {"replace", "clear"}
    PROVE  Extends(q, Settings!WithKeys(q, before, after))
<1>1. CASE before.at = "settling" /\ after.at = "sent"
  <2> DEFINE w == Settings!Write([shown EXCEPT !["credentials"] = after.value], after.mode, made)
  <2>1. [shown EXCEPT !["credentials"] = after.value] \in Settings!Docs
    BY DEF RestTyped, Settings!Docs, Waiter
  <2>2. w \in SaveRecord /\ w.at = "queued" /\ w.mode # "preserve"
    BY <1>1, <2>1, SettingsBounds DEF Settings!Write, SaveRecord, RestTyped
  <2>3. Settings!WithKeys(q, before, after) = Append(q, w)
    BY <1>1 DEF Settings!WithKeys
  <2> HIDE DEF w
  <2> QED BY <2>2, <2>3, ExtendsAppend
<1>2. CASE ~(before.at = "settling" /\ after.at = "sent")
  BY <1>2, ExtendsSelf DEF Settings!WithKeys
<1> QED BY <1>1, <1>2

(* A chain that was added to keeps what a reset waits for, and what has not been sent. *)
LEMMA ExtendsKeeps ==
    ASSUME SettingsInv, Extends(chain, chain'), due' = Settings!NoDoc \/ UNCHANGED due,
           UNCHANGED reset, made' \in Nat, made <= made'
    PROVE  ChainTyped' /\ ResetWaits' /\ (Unsent => Unsent')
<1>1. ChainTyped' /\ Len(chain) \in Nat /\ Len(chain') \in Nat /\ Len(chain) <= Len(chain')
  BY DEF ChainTyped, Extends
<1>2. Unsent => Unsent'
  <2>1. \A i \in 1..Len(chain) : i \in 1..Len(chain') /\ chain'[i] = chain[i]
    BY <1>1 DEF Extends
  <2> QED BY <2>1 DEF Unsent
<1>3. ASSUME reset.at # "rest", NEW n \in 0..Len(chain), Later(reset.since, n)
      PROVE  Later(reset.since, n)'
  <2> SUFFICES ASSUME NEW i \in n + 1..Len(chain'), chain'[i].mode = "preserve"
               PROVE  chain'[i].made > reset.since
    BY DEF Later
  <2>1. (i \in n + 1..Len(chain) /\ i \in 1..Len(chain)) \/ i \in Len(chain) + 1..Len(chain')
    BY <1>1
  <2>2. CASE i \in n + 1..Len(chain) /\ i \in 1..Len(chain)
    BY <1>3, <2>2 DEF Later, Extends
  <2>3. CASE i \in Len(chain) + 1..Len(chain')
    <3>1. Settings!Due /\ chain'[i].made = due.made
      BY <2>3 DEF Extends
    <3> QED BY <1>3, <3>1 DEF SettingsInv, ResetWaits
  <2> QED BY <2>1, <2>2, <2>3
<1>4. ResetWaits'
  <2> SUFFICES ASSUME reset.at # "rest" PROVE ResetWaits'
    BY DEF ResetWaits
  <2>1. /\ reset.since < made /\ (Settings!Due => due.made > reset.since)
        /\ reset.at = "settling" => reset.left \in 1..Len(chain) /\ Later(reset.since, reset.left)
        /\ reset.at # "settling" => Later(reset.since, 0)
    BY DEF SettingsInv, ResetWaits
  <2>2. reset.since < made'
    <3>1. reset.since \in Nat /\ made \in Nat
      BY SettingsTyped DEF SettingsInv, WaitersTyped, Waiter, RestTyped
    <3> QED BY <2>1, <3>1
  <2>3. Settings!Due' => due'.made > reset.since
    BY <2>1 DEF Settings!Due
  <2>4. reset.at = "settling" => reset.left \in 1..Len(chain') /\ Later(reset.since, reset.left)'
    <3> SUFFICES ASSUME reset.at = "settling"
                 PROVE  reset.left \in 1..Len(chain') /\ Later(reset.since, reset.left)'
      OBVIOUS
    <3>1. reset.left \in 1..Len(chain) /\ reset.left \in 0..Len(chain)
      BY <1>1, <2>1
    <3>2. Later(reset.since, reset.left)'
      BY <1>3, <2>1, <3>1 DEF Later
    <3> QED BY <1>1, <3>1, <3>2
  <2>5. reset.at # "settling" => Later(reset.since, 0)'
    <3>1. 0 \in 0..Len(chain)
      BY <1>1
    <3> QED BY <1>3, <2>1, <3>1
  <2> QED BY <2>2, <2>3, <2>4, <2>5 DEF ResetWaits
<1> QED BY <1>1, <1>2, <1>4

--------------------------------------------------------------------------------
(* Changes and saves. *)

LEMMA SetSettingInv == ASSUME SettingsInv, NEW k \in Keys, Settings!SetSetting(k) PROVE SettingsInv'
<1> USE DEF Settings!SetSetting
<1>0. RestTyped /\ ChainTyped
  BY SettingsTyped DEF SettingsInv
<1>1. made \in Nat /\ made >= 1 /\ made' = made + 1 /\ made' \in 1..MaxMade
  BY <1>0, SettingsBounds DEF RestTyped
<1>2. shown' \in Settings!Docs /\ due' = [made |-> made', doc |-> shown']
  BY <1>0, <1>1 DEF RestTyped, Settings!Docs, Settings!Fields
<1>3. RestTyped'
  BY <1>0, <1>1, <1>2 DEF RestTyped
<1>4. ChainTyped' /\ WaitersTyped'
  BY <1>0 DEF SettingsInv, ChainTyped, WaitersTyped
<1>5. ResetWaits'
  <2> SUFFICES ASSUME reset.at # "rest" PROVE ResetWaits'
    BY DEF ResetWaits
  <2>1. reset.since \in Nat /\ reset.since < made
    BY DEF SettingsInv, WaitersTyped, Waiter, ResetWaits
  <2>2. reset.since < made' /\ due'.made > reset.since
    BY <1>1, <1>2, <2>1
  <2> QED BY <2>2 DEF SettingsInv, ResetWaits, Later
<1>6. SomethingComes'
  <2>1. due'.made # 0
    BY <1>1, <1>2
  <2> QED BY <2>1, NoDocTyped DEF SomethingComes, Settings!Due
<1> QED BY <1>3, <1>4, <1>5, <1>6, SettingsTypedNext DEF SettingsInv

LEMMA SaveToBackendInv == ASSUME SettingsInv, Settings!SaveToBackend PROVE SettingsInv'
<1> USE DEF Settings!SaveToBackend
<1>0. RestTyped /\ ChainTyped
  BY SettingsTyped DEF SettingsInv
<1>1. /\ Extends(chain, chain') /\ due' = Settings!NoDoc /\ UNCHANGED reset
      /\ Len(chain') = Len(chain) + 1
  BY <1>0, EnqueueExtends DEF ChainTyped
<1>2. ChainTyped' /\ ResetWaits'
  <2>1. made' \in Nat /\ made <= made'
    BY <1>0 DEF RestTyped
  <2> QED BY <1>1, <2>1, ExtendsKeeps
<1>3. RestTyped'
  BY <1>0, <1>1, NoDocTyped DEF RestTyped
<1>4. WaitersTyped'
  BY DEF SettingsInv, WaitersTyped
<1>5. SomethingComes'
  <2>1. Len(chain') \in 1..Len(chain') /\ chain'[Len(chain')].at = "queued"
    BY <1>1 DEF Extends
  <2> QED BY <2>1 DEF SomethingComes, Unsent
<1> QED BY <1>2, <1>3, <1>4, <1>5, SettingsTypedNext DEF SettingsInv

(* The first write goes a step further. *)
LEMMA HeadMoves ==
    ASSUME SettingsInv, chain # <<>>, NEW w \in SaveRecord, chain' = [chain EXCEPT ![1] = w],
           w.mode = Head(chain).mode, w.made = Head(chain).made, UNCHANGED <<made, due, reset>>
    PROVE  /\ ChainTyped' /\ ResetWaits' /\ Len(chain') = Len(chain) /\ 1 \in 1..Len(chain)
           /\ chain'[1] = w
<1>1. chain \in Seq(SaveRecord) /\ Len(chain) \in Nat /\ Len(chain) >= 1 /\ Head(chain) = chain[1]
  BY DEF SettingsInv, ChainTyped, Chained
<1>2. /\ chain' \in Seq(SaveRecord) /\ Len(chain') = Len(chain) /\ chain'[1] = w
      /\ \A i \in 2..Len(chain) : chain'[i] = chain[i]
  BY <1>1
<1>3. ChainTyped'
  BY <1>2 DEF SettingsInv, ChainTyped, Chained
<1>4. \A i \in 1..Len(chain) : chain'[i].mode = chain[i].mode /\ chain'[i].made = chain[i].made
  BY <1>1, <1>2
<1>5. \A n \in Nat : Later(reset.since, n) => Later(reset.since, n)'
  <2> SUFFICES ASSUME NEW n \in Nat, Later(reset.since, n), NEW i \in n + 1..Len(chain')
               PROVE  chain'[i].mode = "preserve" => chain'[i].made > reset.since
    BY DEF Later
  <2>1. i \in n + 1..Len(chain) /\ i \in 1..Len(chain)
    BY <1>1, <1>2
  <2> QED BY <1>4, <2>1 DEF Later
<1>6. ResetWaits'
  <2>1. reset.left \in Nat /\ 0 \in Nat
    BY DEF SettingsInv, WaitersTyped, Waiter
  <2>2. reset.at = "settling" /\ Later(reset.since, reset.left) => Later(reset.since, reset.left)'
    BY <1>5, <2>1 DEF Later
  <2>3. reset.at # "settling" /\ Later(reset.since, 0) => Later(reset.since, 0)'
    BY <1>5 DEF Later
  <2> QED BY <1>2, <2>2, <2>3 DEF SettingsInv, ResetWaits, Settings!Due
<1> QED BY <1>1, <1>2, <1>3, <1>6

LEMMA ResolveInv == ASSUME SettingsInv, Settings!Resolve PROVE SettingsInv'
<1> USE DEF Settings!Resolve
<1>0. RestTyped /\ ChainTyped /\ chain # <<>>
  BY SettingsTyped DEF SettingsInv
<1>1. chain \in Seq(SaveRecord) /\ Head(chain) = chain[1] /\ chain[1] \in SaveRecord
  BY <1>0 DEF ChainTyped, Chained
<1>2. PICK v \in 0..MaxMade : chain' = [chain EXCEPT ![1].at = "resolved", ![1].doc["credentials"] = v]
  <2>1. kept["credentials"] \in 0..MaxMade /\ chain[1].doc["credentials"] \in 0..MaxMade
    BY <1>0, <1>1 DEF RestTyped, Settings!Docs, Settings!Fields, SaveRecord
  <2>2. CASE Head(chain).mode = "preserve"
    BY <2>1, <2>2
  <2>3. CASE Head(chain).mode # "preserve"
    BY <2>1, <2>3
  <2> QED BY <2>2, <2>3
<1> DEFINE w == [chain[1] EXCEPT !.at = "resolved", !.doc["credentials"] = v]
<1>3. w \in SaveRecord /\ w.mode = chain[1].mode /\ w.made = chain[1].made /\ w.at = "resolved"
  BY <1>1 DEF SaveRecord, Settings!Docs
<1>4. chain' = [chain EXCEPT ![1] = w]
  BY <1>0, <1>1, <1>2
<1> HIDE DEF w
<1>5. ChainTyped' /\ ResetWaits' /\ Len(chain') = Len(chain) /\ 1 \in 1..Len(chain) /\ chain'[1] = w
  BY <1>0, <1>1, <1>3, <1>4, HeadMoves
<1>6. SomethingComes'
  BY <1>3, <1>5 DEF SomethingComes, Unsent
<1>7. RestTyped' /\ WaitersTyped'
  BY <1>0 DEF RestTyped, SettingsInv, WaitersTyped
<1> QED BY <1>5, <1>6, <1>7, SettingsTypedNext DEF SettingsInv

LEMMA StoreInv == ASSUME SettingsInv, Settings!Store PROVE SettingsInv'
<1>0. RestTyped /\ ChainTyped /\ chain # <<>>
  BY SettingsTyped DEF SettingsInv, Settings!Store
<1>1. chain \in Seq(SaveRecord) /\ Head(chain) = chain[1] /\ chain[1] \in SaveRecord
  BY <1>0 DEF ChainTyped, Chained
<1>2. UNCHANGED <<shown, made, due, lastOk, reset, keys, tray, reads, crossed>>
  BY DEF Settings!Store
<1>3. PICK a \in {"stored", "failed"} : chain' = [chain EXCEPT ![1].at = a]
  BY DEF Settings!Store
<1> DEFINE w == [chain[1] EXCEPT !.at = a]
<1>4. w \in SaveRecord /\ w.mode = chain[1].mode /\ w.made = chain[1].made
  BY <1>1 DEF SaveRecord
<1>5. chain' = [chain EXCEPT ![1] = w]
  BY <1>0, <1>1, <1>3
<1> HIDE DEF w
<1>6. ChainTyped' /\ ResetWaits'
  BY <1>0, <1>1, <1>2, <1>4, <1>5, HeadMoves
<1>7. /\ kept' \in {kept, chain[1].doc} /\ events' \in {events, events + 1}
      /\ \/ events' = events + 1 /\ UNCHANGED failed
         \/ failed' = TRUE
  BY <1>1 DEF Settings!Store
<1>8. chain[1].doc \in Settings!Docs
  BY <1>1 DEF SaveRecord
<1>9. RestTyped'
  <2>1. kept' \in Settings!Docs /\ events' \in Nat
    BY <1>0, <1>7, <1>8 DEF RestTyped
  <2>2. failed' \in BOOLEAN
    BY <1>0, <1>7 DEF RestTyped
  <2> QED BY <1>0, <1>2, <2>1, <2>2 DEF RestTyped
<1>10. WaitersTyped'
  BY <1>2 DEF SettingsInv, WaitersTyped
<1>11. failed' \/ SomethingComes'
  <2>1. events' = events + 1 => events' > 0
    BY <1>0 DEF RestTyped
  <2> QED BY <1>7, <2>1 DEF SomethingComes
<1> QED BY <1>6, <1>9, <1>10, <1>11, SettingsTypedNext DEF SettingsInv

--------------------------------------------------------------------------------
(* Those who wait for the chain. *)

LEMMA SettledIs ==
    ASSUME NEW p \in Waiter, NEW ok
    PROVE  /\ Settings!Settled(p, ok) \in Waiter
           /\ p.at # "settling" => Settings!Settled(p, ok) = p
           /\ p.at = "settling" =>
                 /\ Settings!Settled(p, ok).at \in {"rest", "settling", "sent"}
                 /\ Settings!Settled(p, ok).at = "settling" <=> p.left > 1
                 /\ p.left > 1 => Settings!Settled(p, ok).left = p.left - 1
                 /\ Settings!Settled(p, ok).at # "rest" =>
                       /\ Settings!Settled(p, ok).since = p.since
                       /\ Settings!Settled(p, ok).mode = p.mode
<1> USE DEF Waiter
<1>1. CASE p.at # "settling"
  BY <1>1 DEF Settings!Settled
<1>2. CASE p.at = "settling" /\ p.left > 1
  <2>1. Settings!Settled(p, ok) = [p EXCEPT !.left = p.left - 1]
    BY <1>2 DEF Settings!Settled
  <2>2. p.left - 1 \in Nat
    BY <1>2
  <2> QED BY <1>2, <2>1, <2>2
<1>3. CASE p.at = "settling" /\ ~(p.left > 1) /\ ok
  <2>1. Settings!Settled(p, ok) = [p EXCEPT !.at = "sent", !.left = 0]
    BY <1>3 DEF Settings!Settled
  <2> DEFINE q == [p EXCEPT !.at = "sent", !.left = 0]
  <2>2. q \in Waiter
    OBVIOUS
  <2>3. q.at = "sent" /\ q.since = p.since /\ q.mode = p.mode
    OBVIOUS
  <2> HIDE DEF q
  <2>4. Settings!Settled(p, ok) = q
    BY <2>1 DEF q
  <2> QED BY <1>3, <2>2, <2>3, <2>4
<1>4. CASE p.at = "settling" /\ ~(p.left > 1) /\ ~ok
  <2>1. Settings!Settled(p, ok) = Settings!Rest
    BY <1>4 DEF Settings!Settled
  <2>2. Settings!Rest \in Waiter /\ Settings!Rest.at = "rest"
    BY SettingsBounds DEF Settings!Rest
  <2> QED BY <1>4, <2>1, <2>2
<1> QED BY <1>1, <1>2, <1>3, <1>4

LEMMA SettleIs ==
    ASSUME SettingsInv, NEW p \in Waiter, p.at = "settling", p.mode \in {"reset", "replace", "clear"},
           Settings!Settle(p)
    PROVE  /\ due' = Settings!NoDoc /\ Extends(chain, chain') /\ (Settings!Due => Unsent')
           /\ \E now \in Waiter :
                 /\ now.at \in {"rest", "settling", "sent"}
                 /\ now.at # "rest" => now.since = p.since /\ now.mode = p.mode
                 /\ p.mode = "reset" =>
                       /\ reset' = now /\ UNCHANGED keys
                       /\ now.at = "settling" => now.left = Len(chain') /\ Len(chain') >= 1
                       /\ now.at # "settling" => Len(chain') = 0
                 /\ p.mode # "reset" => keys' = now /\ UNCHANGED reset
<1> DEFINE queue == Settings!Enqueue(chain)
           now == IF queue = <<>> THEN Settings!Settled([p EXCEPT !.left = 1], lastOk)
                  ELSE [p EXCEPT !.left = Len(queue)]
<1>0. RestTyped /\ ChainTyped
  BY SettingsTyped DEF SettingsInv
<1>1. Extends(chain, queue) /\ (Settings!Due => Len(queue) = Len(chain) + 1)
  BY <1>0, EnqueueExtends DEF ChainTyped
<1>2. Chained(queue) /\ Len(queue) \in Nat /\ queue \in Seq(SaveRecord) /\ Len(chain) \in Nat
  BY <1>1 DEF Extends, Chained
<1>3. /\ due' = Settings!NoDoc
      /\ p.mode = "reset" => reset' = now /\ UNCHANGED keys /\ chain' = queue
      /\ p.mode # "reset" => keys' = now /\ UNCHANGED reset /\ chain' = Settings!WithKeys(queue, p, now)
  BY DEF Settings!Settle
<1>4. /\ now \in Waiter /\ now.at \in {"rest", "settling", "sent"}
      /\ now.at # "rest" => now.since = p.since /\ now.mode = p.mode
      /\ now.at = "settling" => now.left = Len(queue) /\ Len(queue) >= 1
      /\ now.at # "settling" => Len(queue) = 0
  <2>1. CASE queue = <<>>
    <3> DEFINE one == [p EXCEPT !.left = 1]
    <3>1. one \in Waiter /\ one.at = "settling" /\ ~(one.left > 1) /\ one.since = p.since /\ one.mode = p.mode
      BY DEF Waiter
    <3> HIDE DEF one
    <3>2. /\ Settings!Settled(one, lastOk) \in Waiter
          /\ Settings!Settled(one, lastOk).at \in {"rest", "sent"}
          /\ Settings!Settled(one, lastOk).at # "rest" =>
                /\ Settings!Settled(one, lastOk).since = p.since
                /\ Settings!Settled(one, lastOk).mode = p.mode
      BY <3>1, SettledIs
    <3>3. now = Settings!Settled(one, lastOk) /\ Len(queue) = 0
      BY <2>1 DEF one
    <3> HIDE DEF now
    <3> QED BY <3>2, <3>3
  <2>2. CASE queue # <<>>
    <3>1. now = [p EXCEPT !.left = Len(queue)] /\ Len(queue) >= 1
      BY <1>2, <2>2
    <3>2. now \in Waiter /\ now.at = "settling" /\ now.left = Len(queue) /\ now.since = p.since
          /\ now.mode = p.mode
      BY <1>2, <3>1 DEF Waiter
    <3> HIDE DEF now, queue
    <3> QED BY <3>1, <3>2
  <2> QED BY <2>1, <2>2
<1> HIDE DEF now, queue
<1>5. Extends(queue, chain') /\ (p.mode = "reset" => chain' = queue)
  <2>1. CASE p.mode = "reset"
    BY <1>2, <1>3, <2>1, ExtendsSelf
  <2>2. CASE p.mode # "reset"
    <3>1. p.at = "settling" /\ now.at = "sent" => now.mode \in {"replace", "clear"}
      BY <1>4, <2>2
    <3> QED BY <1>0, <1>2, <1>3, <1>4, <2>2, <3>1, WithKeysExtends
  <2> QED BY <2>1, <2>2
<1>6. Extends(chain, chain')
  BY <1>1, <1>5, ExtendsTwice
<1>7. Settings!Due => Unsent'
  <2> SUFFICES ASSUME Settings!Due PROVE Unsent'
    OBVIOUS
  <2>1. Len(queue) \in 1..Len(queue) /\ queue[Len(queue)].at = "queued"
    BY <1>1, <1>2 DEF Extends
  <2>2. Len(queue) \in 1..Len(chain') /\ chain'[Len(queue)].at = "queued"
    BY <1>5, <2>1 DEF Extends
  <2> QED BY <2>2 DEF Unsent
<1>8. \E n \in Waiter :
         /\ n.at \in {"rest", "settling", "sent"}
         /\ n.at # "rest" => n.since = p.since /\ n.mode = p.mode
         /\ p.mode = "reset" =>
               /\ reset' = n /\ UNCHANGED keys
               /\ n.at = "settling" => n.left = Len(chain') /\ Len(chain') >= 1
               /\ n.at # "settling" => Len(chain') = 0
         /\ p.mode # "reset" => keys' = n /\ UNCHANGED reset
  BY <1>3, <1>4, <1>5
<1> QED BY <1>3, <1>6, <1>7, <1>8

LEMMA PressResetInv == ASSUME SettingsInv, Settings!PressReset PROVE SettingsInv'
<1> DEFINE p == [Settings!Rest EXCEPT !.at = "settling", !.since = made, !.mode = "reset"]
<1>0. RestTyped /\ ChainTyped /\ made \in Nat
  BY SettingsTyped DEF SettingsInv, RestTyped
<1>1. p \in Waiter /\ p.at = "settling" /\ p.mode = "reset" /\ p.since = made
  <2>1. 0 \in 0..MaxMade
    BY SettingsBounds
  <2> QED BY <1>0, <2>1 DEF Waiter, Settings!Rest
<1>2. Settings!Settle(p) /\ made < MaxMade /\ made' = made + 1
      /\ UNCHANGED <<kept, shown, lastOk, reads, tray, events, failed, crossed>>
  BY DEF Settings!PressReset
<1> HIDE DEF p
<1>3. due' = Settings!NoDoc /\ Extends(chain, chain') /\ (Settings!Due => Unsent')
  BY <1>1, <1>2, SettleIs
<1>4. PICK now \in Waiter :
         /\ now.at \in {"rest", "settling", "sent"}
         /\ now.at # "rest" => now.since = made
         /\ reset' = now /\ UNCHANGED keys
         /\ now.at = "settling" => now.left = Len(chain') /\ Len(chain') >= 1
         /\ now.at # "settling" => Len(chain') = 0
  BY <1>1, <1>2, SettleIs
<1>5. ChainTyped' /\ Len(chain') \in Nat /\ (Unsent => Unsent')
  <2>1. \A i \in 1..Len(chain) : i \in 1..Len(chain') /\ chain'[i] = chain[i]
    BY <1>3 DEF Extends
  <2> QED BY <1>3, <2>1 DEF Extends, ChainTyped, Unsent
<1>6. ResetWaits'
  <2>1. made < made' /\ ~Settings!Due'
    BY <1>0, <1>2, <1>3 DEF Settings!Due
  <2>2. ASSUME now.at = "settling" PROVE reset'.left \in 1..Len(chain') /\ Later(reset.since, reset.left)'
    BY <1>4, <1>5, <2>2 DEF Later
  <2>3. ASSUME now.at # "settling" PROVE Later(reset.since, 0)'
    BY <1>4, <1>5, <2>3 DEF Later
  <2> QED BY <1>4, <2>1, <2>2, <2>3 DEF ResetWaits
<1>7. RestTyped'
  <2>1. made' \in 1..MaxMade
    BY <1>0, <1>2, SettingsBounds
  <2> QED BY <1>0, <1>2, <1>3, <2>1, NoDocTyped DEF RestTyped
<1>8. WaitersTyped'
  BY <1>4 DEF SettingsInv, WaitersTyped
<1>9. SomethingComes => SomethingComes'
  BY <1>2, <1>3, <1>5 DEF SomethingComes
<1> QED BY <1>2, <1>5, <1>6, <1>7, <1>8, <1>9, SettingsTypedNext DEF SettingsInv

LEMMA PressKeysInv ==
    ASSUME SettingsInv, NEW mode \in {"replace", "clear"}, Settings!PressKeys(mode) PROVE SettingsInv'
<1>0. RestTyped /\ ChainTyped /\ made \in Nat
  BY SettingsTyped DEF SettingsInv, RestTyped
<1>1. made < MaxMade /\ made' = made + 1
      /\ UNCHANGED <<kept, shown, lastOk, reads, tray, events, failed, crossed>>
  BY DEF Settings!PressKeys
<1>2. PICK p : /\ p \in Waiter /\ p.at = "settling" /\ p.mode = mode
               /\ Settings!Settle(p)
  <2>1. PICK v : v = IF mode = "replace" THEN made' ELSE 0
    OBVIOUS
  <2>2. v \in 0..MaxMade
    BY <1>0, <1>1, <2>1, SettingsBounds
  <2> DEFINE p == [Settings!Rest EXCEPT !.at = "settling", !.since = made, !.mode = mode, !.value = v]
  <2>3. Settings!Settle(p)
    BY <2>1 DEF Settings!PressKeys
  <2>4. p \in Waiter /\ p.at = "settling" /\ p.mode = mode
    BY <1>0, <2>2 DEF Waiter, Settings!Rest
  <2> HIDE DEF p
  <2> QED BY <2>3, <2>4
<1>3. due' = Settings!NoDoc /\ Extends(chain, chain') /\ (Settings!Due => Unsent')
  BY <1>2, SettleIs
<1>4. PICK now \in Waiter :
         /\ now.at \in {"rest", "settling", "sent"}
         /\ now.at # "rest" => now.mode \in {"replace", "clear"}
         /\ keys' = now /\ UNCHANGED reset
  BY <1>2, SettleIs
<1>5. made' \in Nat /\ made <= made'
  BY <1>0, <1>1
<1>6. ChainTyped' /\ ResetWaits' /\ (Unsent => Unsent')
  BY <1>3, <1>4, <1>5, ExtendsKeeps
<1>7. RestTyped'
  <2>1. made' \in 1..MaxMade
    BY <1>0, <1>1, SettingsBounds
  <2> QED BY <1>0, <1>1, <1>3, <2>1, NoDocTyped DEF RestTyped
<1>8. WaitersTyped'
  BY <1>4 DEF SettingsInv, WaitersTyped
<1>9. SomethingComes => SomethingComes'
  BY <1>1, <1>3, <1>6 DEF SomethingComes
<1> QED BY <1>1, <1>6, <1>7, <1>8, <1>9, SettingsTypedNext DEF SettingsInv

(* The first write is over.  A save that failed ends whoever waits behind it. *)
LEMMA TailIs ==
    ASSUME SettingsInv, chain # <<>>
    PROVE  /\ Head(chain) = chain[1] /\ chain[1] \in SaveRecord /\ Len(chain) \in Nat /\ Len(chain) >= 1
           /\ Chained(Tail(chain)) /\ Len(Tail(chain)) = Len(chain) - 1
           /\ \A i \in 1..Len(chain) - 1 : Tail(chain)[i] = chain[i + 1]
<1>1. /\ chain \in Seq(SaveRecord) /\ Len(chain) \in Nat /\ Len(chain) >= 1
      /\ Tail(chain) \in Seq(SaveRecord) /\ Len(Tail(chain)) = Len(chain) - 1
      /\ \A i \in 1..Len(chain) - 1 : Tail(chain)[i] = chain[i + 1]
      /\ Head(chain) = chain[1] /\ chain[1] \in SaveRecord
  BY DEF SettingsInv, ChainTyped, Chained
<1>2. \A i \in 2..Len(Tail(chain)) : i \in 1..Len(chain) - 1 /\ i + 1 \in 2..Len(chain)
  BY <1>1
<1>3. \A i \in 2..Len(chain) : chain[i].at = "queued"
  BY DEF SettingsInv, ChainTyped, Chained
<1> QED BY <1>1, <1>2, <1>3 DEF Chained

LEMMA WriteReplyInv == ASSUME SettingsInv, Settings!WriteReply PROVE SettingsInv'
<1> DEFINE w == Head(chain)
           ok == w.mode # "preserve" \/ w.at = "stored"
<1>0. RestTyped /\ ChainTyped /\ WaitersTyped /\ chain # <<>>
  BY SettingsTyped DEF SettingsInv, Settings!WriteReply
<1>1. /\ Head(chain) = chain[1] /\ chain[1] \in SaveRecord /\ Len(chain) \in Nat /\ Len(chain) >= 1
      /\ Chained(Tail(chain)) /\ Len(Tail(chain)) = Len(chain) - 1
      /\ \A i \in 1..Len(chain) - 1 : Tail(chain)[i] = chain[i + 1]
  BY <1>0, TailIs
<1>2. /\ w.at \in {"stored", "failed"} /\ lastOk' = ok /\ reset' = Settings!Settled(reset, ok)
      /\ UNCHANGED <<kept, made, due, reads, tray, events, failed>>
      /\ \/ /\ keys' = Settings!Settled(keys, ok) /\ chain' = Settings!WithKeys(Tail(chain), keys, keys')
            /\ UNCHANGED <<shown, crossed>>
         \/ /\ keys' = Settings!Rest /\ chain' = Tail(chain)
            /\ shown' = IF w.at = "stored" THEN w.doc ELSE shown
            /\ crossed' = (crossed \/ (w.at = "stored" /\ (Settings!Due \/ Tail(chain) # <<>> \/ w.doc # kept)))
  BY DEF Settings!WriteReply
<1>3. /\ keys' \in Waiter /\ keys'.at \in {"rest", "settling", "sent"}
      /\ keys'.at = "settling" => keys'.mode \in {"replace", "clear"}
  <2>1. Settings!Rest \in Waiter /\ Settings!Rest.at = "rest"
    BY SettingsBounds DEF Settings!Rest, Waiter
  <2>2. /\ Settings!Settled(keys, ok) \in Waiter
        /\ Settings!Settled(keys, ok).at \in {"rest", "settling", "sent"}
        /\ Settings!Settled(keys, ok).at = "settling" => Settings!Settled(keys, ok).mode \in {"replace", "clear"}
    BY <1>0, SettledIs DEF WaitersTyped
  <2> QED BY <1>2, <2>1, <2>2
<1>4. Extends(Tail(chain), chain')
  <2>1. CASE keys' = Settings!Settled(keys, ok) /\ chain' = Settings!WithKeys(Tail(chain), keys, keys')
    <3>1. PICK after \in Waiter : after = keys'
      BY <1>3
    <3>2. keys.at = "settling" /\ after.at = "sent" => after.mode \in {"replace", "clear"}
      <4>1. keys \in Waiter /\ (keys.at = "settling" => keys.mode \in {"replace", "clear"})
        BY <1>0 DEF WaitersTyped
      <4>2. keys.at = "settling" /\ after.at = "sent" => after.mode = keys.mode
        BY <2>1, <3>1, <4>1, SettledIs
      <4> QED BY <4>1, <4>2
    <3> QED BY <1>0, <1>1, <2>1, <3>1, <3>2, WithKeysExtends
  <2>2. CASE chain' = Tail(chain)
    BY <1>1, <2>2, ExtendsSelf
  <2> QED BY <1>2, <2>1, <2>2
<1>5. /\ ChainTyped' /\ Len(chain') \in Nat /\ Len(chain') >= Len(chain) - 1
      /\ \A i \in 1..Len(chain) - 1 : chain'[i] = chain[i + 1]
      /\ \A i \in Len(chain)..Len(chain') :
            chain'[i].mode = "preserve" => Settings!Due /\ chain'[i].made = due.made
  <2>1. Len(Tail(chain)) + 1 = Len(chain)
    BY <1>1
  <2> QED BY <1>1, <1>4, <2>1 DEF Extends, ChainTyped
<1>6. WaitersTyped'
  BY <1>0, <1>2, <1>3, SettledIs DEF WaitersTyped
<1>7. RestTyped'
  <2>1. shown' \in Settings!Docs /\ crossed' \in BOOLEAN
    BY <1>0, <1>1, <1>2 DEF RestTyped, SaveRecord
  <2>2. lastOk' \in BOOLEAN
    BY <1>2
  <2> QED BY <1>0, <1>2, <2>1, <2>2 DEF RestTyped
<1>8. Unsent => Unsent'
  <2> SUFFICES ASSUME NEW i \in 1..Len(chain), chain[i].at \in {"queued", "resolved"} PROVE Unsent'
    BY DEF Unsent
  <2>1. i # 1
    BY <1>1, <1>2
  <2>2. i - 1 \in 1..Len(chain) - 1 /\ i - 1 + 1 = i /\ i - 1 \in 1..Len(chain')
    BY <1>1, <1>5, <2>1
  <2>3. chain'[i - 1] = chain[i]
    BY <1>5, <2>2
  <2> QED BY <2>2, <2>3 DEF Unsent
<1>9. failed' \/ crossed' \/ SomethingComes'
  <2> SUFFICES ASSUME ~failed', ~crossed' PROVE SomethingComes'
    OBVIOUS
  <2>1. CASE UNCHANGED shown
    <3>1. ~failed
      BY <1>2
    <3>2. ~crossed
      <4>1. crossed' = crossed \/ (crossed => crossed')
        BY <1>2
      <4> QED BY <4>1
    <3> QED BY <1>2, <1>8, <2>1, <3>1, <3>2 DEF SettingsInv, SomethingComes, Settings!Due
  <2>2. CASE shown' = w.doc /\ w.doc = kept
    BY <1>2, <2>2 DEF SomethingComes
  <2> QED BY <1>2, <2>1, <2>2
<1>10. \A since, n \in Nat : Later(since, n + 1) /\ (Settings!Due => due.made > since) => Later(since, n)'
  <2> SUFFICES ASSUME NEW since \in Nat, NEW n \in Nat, Later(since, n + 1), Settings!Due => due.made > since,
                      NEW i \in n + 1..Len(chain'), chain'[i].mode = "preserve"
               PROVE  chain'[i].made > since
    BY DEF Later
  <2>1. CASE i \in 1..Len(chain) - 1
    <3>1. chain'[i] = chain[i + 1] /\ i + 1 \in n + 1 + 1..Len(chain)
      BY <1>1, <1>5, <2>1
    <3> QED BY <3>1 DEF Later
  <2>2. CASE i \in Len(chain)..Len(chain')
    BY <1>5, <2>2
  <2> QED BY <1>1, <1>5, <2>1, <2>2
<1>11. ResetWaits'
  <2> SUFFICES ASSUME reset'.at # "rest" PROVE ResetWaits'
    BY DEF ResetWaits
  <2>1. reset \in Waiter /\ reset.since \in Nat /\ reset.left \in Nat
    BY <1>0 DEF WaitersTyped, Waiter
  <2>2. CASE reset.at # "settling"
    <3>1. reset' = reset
      BY <1>2, <2>1, <2>2, SettledIs
    <3>2. /\ reset.since < made /\ (Settings!Due => due.made > reset.since) /\ Later(reset.since, 0)
      BY <2>2, <3>1 DEF SettingsInv, ResetWaits
    <3>3. Later(reset.since, 0 + 1)
      BY <3>2 DEF Later
    <3>4. Later(reset.since, 0)'
      BY <1>10, <2>1, <3>1, <3>2, <3>3 DEF Later
    <3> QED BY <1>2, <2>2, <3>1, <3>2, <3>4 DEF ResetWaits, Settings!Due
  <2>3. CASE reset.at = "settling"
    <3>1. /\ reset.since < made /\ (Settings!Due => due.made > reset.since)
          /\ reset.left \in 1..Len(chain) /\ Later(reset.since, reset.left)
      BY <2>3 DEF SettingsInv, ResetWaits
    <3>2. reset'.since = reset.since /\ reset'.at \in {"settling", "sent"}
          /\ (reset'.at = "settling" <=> reset.left > 1)
          /\ (reset.left > 1 => reset'.left = reset.left - 1)
      BY <1>2, <2>1, <2>3, SettledIs
    <3>3. reset.left - 1 \in Nat /\ reset.left - 1 + 1 = reset.left
      BY <3>1
    <3>4. PICK m \in Nat : m = reset.left - 1 /\ Later(reset.since, m + 1)
      BY <3>1, <3>3
    <3>5. PICK t \in Nat : t = reset.since
      BY <2>1
    <3>6. Later(t, m)' /\ reset'.since = t
      BY <1>10, <3>1, <3>2, <3>4, <3>5
    <3>7. CASE reset.left > 1
      <4>1. reset'.at = "settling" /\ reset'.left = m /\ m \in 1..Len(chain')
        BY <1>5, <3>1, <3>2, <3>4, <3>7
      <4> QED BY <1>2, <3>1, <3>2, <3>6, <4>1 DEF ResetWaits, Settings!Due, Later
    <3>8. CASE ~(reset.left > 1)
      <4>1. reset'.at = "sent"
        BY <3>2, <3>8
      <4>3. m = 0
        <5>1. reset.left \in 1..1
          BY <1>1, <3>1, <3>8
        <5> QED BY <3>4, <5>1
      <4>2. Later(reset.since, 0)'
        BY <3>6, <4>3 DEF Later
      <4> QED BY <1>2, <3>1, <3>2, <4>1, <4>2 DEF ResetWaits, Settings!Due
    <3> QED BY <3>7, <3>8
  <2> QED BY <2>2, <2>3
<1> QED BY <1>2, <1>5, <1>6, <1>7, <1>9, <1>11, SettingsTypedNext DEF SettingsInv

--------------------------------------------------------------------------------
(* The reset in Go, the tray, and the reads of the window. *)

(* Whatever is written to Go is told, unless it failed. *)
LEMMA ResetStoredInv == ASSUME SettingsInv, Settings!ResetStored PROVE SettingsInv'
<1>0. RestTyped /\ ChainTyped /\ WaitersTyped
  BY SettingsTyped DEF SettingsInv
<1>1. /\ reset.at = "sent" /\ UNCHANGED <<shown, made, due, chain, lastOk, keys, reads, tray, crossed>>
      /\ kept' \in {kept, Settings!Default} /\ events' \in {events, events + 1}
      /\ \/ events' = events + 1 /\ UNCHANGED failed
         \/ failed' = TRUE
  BY DEF Settings!ResetStored
<1>2. PICK a \in {"stored", "failed"} : reset' = [reset EXCEPT !.at = a]
  BY DEF Settings!ResetStored
<1>3. reset' \in Waiter /\ reset'.at = a /\ reset'.since = reset.since
  BY <1>0, <1>2 DEF WaitersTyped, Waiter
<1>4. RestTyped'
  <2>1. kept' \in Settings!Docs /\ events' \in Nat
    BY <1>0, <1>1, NoDocTyped DEF RestTyped
  <2>2. failed' \in BOOLEAN
    BY <1>0, <1>1 DEF RestTyped
  <2> QED BY <1>0, <1>1, <2>1, <2>2 DEF RestTyped
<1>5. ChainTyped' /\ WaitersTyped'
  BY <1>0, <1>1, <1>3 DEF ChainTyped, WaitersTyped
<1>6. ResetWaits'
  BY <1>1, <1>3 DEF SettingsInv, ResetWaits, Later, Settings!Due
<1>7. failed' \/ SomethingComes'
  <2>1. events' = events + 1 => events' > 0
    BY <1>0 DEF RestTyped
  <2> QED BY <1>1, <2>1 DEF SomethingComes
<1> QED BY <1>4, <1>5, <1>6, <1>7, SettingsTypedNext DEF SettingsInv

LEMMA ResetReplyInv == ASSUME SettingsInv, Settings!ResetReply PROVE SettingsInv'
<1>0. RestTyped /\ ChainTyped /\ WaitersTyped
  BY SettingsTyped DEF SettingsInv
<1>1. /\ reset' = Settings!Rest
      /\ UNCHANGED <<kept, made, due, chain, lastOk, keys, tray, reads, events, failed>>
      /\ shown' = IF reset.at = "stored" THEN Settings!Default ELSE shown
      /\ crossed' = (crossed \/ (reset.at = "stored" /\
                                 (Settings!Due \/ chain # <<>> \/ kept # Settings!Default)))
  BY DEF Settings!ResetReply
<1>2. RestTyped'
  <2>1. shown' \in Settings!Docs
    BY <1>0, <1>1, NoDocTyped DEF RestTyped
  <2>2. crossed' \in BOOLEAN
    BY <1>0, <1>1 DEF RestTyped
  <2> QED BY <1>0, <1>1, <2>1, <2>2 DEF RestTyped
<1>3. Settings!Rest \in Waiter /\ Settings!Rest.at = "rest"
  BY SettingsBounds DEF Settings!Rest, Waiter
<1>4. ChainTyped' /\ WaitersTyped' /\ ResetWaits'
  BY <1>0, <1>1, <1>3 DEF ChainTyped, WaitersTyped, ResetWaits
<1>5. failed' \/ crossed' \/ SomethingComes'
  <2> SUFFICES ASSUME ~failed', ~crossed' PROVE SomethingComes'
    OBVIOUS
  <2>1. CASE reset.at = "stored"
    BY <1>1, <2>1 DEF SomethingComes
  <2>2. CASE reset.at # "stored"
    <3>1. ~failed /\ ~crossed
      BY <1>1
    <3> QED BY <1>1, <2>2, <3>1 DEF SettingsInv, SomethingComes, Unsent, Settings!Due
  <2> QED BY <2>1, <2>2
<1> QED BY <1>2, <1>4, <1>5, SettingsTypedNext DEF SettingsInv

LEMMA TrayReadsInv == ASSUME SettingsInv, NEW k \in Keys, Settings!TrayReads(k) PROVE SettingsInv'
<1> USE DEF Settings!TrayReads
<1>0. RestTyped /\ ChainTyped /\ WaitersTyped
  BY SettingsTyped DEF SettingsInv
<1>1. made \in Nat /\ made' = made + 1 /\ made' \in 1..MaxMade
  BY <1>0, SettingsBounds DEF RestTyped
<1>2. [kept EXCEPT ![k] = made'] \in Settings!Docs
  BY <1>0, <1>1 DEF RestTyped, Settings!Docs, Settings!Fields
<1>3. RestTyped'
  BY <1>0, <1>1, <1>2 DEF RestTyped
<1>4. ChainTyped' /\ WaitersTyped'
  BY <1>0 DEF ChainTyped, WaitersTyped
<1>5. ResetWaits'
  <2>1. reset.since \in Nat
    BY <1>0 DEF WaitersTyped, Waiter
  <2>2. reset.since < made => reset.since < made'
    BY <1>1, <2>1
  <2> QED BY <2>2 DEF SettingsInv, ResetWaits, Later, Settings!Due
<1>6. SomethingComes => SomethingComes'
  BY DEF SomethingComes, Unsent, Settings!Due
<1> QED BY <1>3, <1>4, <1>5, <1>6, SettingsTypedNext DEF SettingsInv

(* A step that leaves the chain, what is due and those who wait as they are. *)
LEMMA WaitsStay ==
    ASSUME SettingsInv, UNCHANGED <<made, due, chain, reset, keys>>
    PROVE  ChainTyped' /\ WaitersTyped' /\ ResetWaits' /\ (Unsent' <=> Unsent)
BY DEF SettingsInv, ChainTyped, WaitersTyped, ResetWaits, Later, Settings!Due, Unsent

LEMMA TrayStoresInv == ASSUME SettingsInv, Settings!TrayStores PROVE SettingsInv'
<1>0. RestTyped
  BY SettingsTyped DEF SettingsInv
<1>1. /\ UNCHANGED <<shown, made, due, chain, lastOk, reset, keys, reads, failed, crossed>>
      /\ tray' = Settings!NoDoc
      /\ \/ kept' = tray.doc /\ events' = events + 1
         \/ UNCHANGED <<kept, events>>
  BY DEF Settings!TrayStores, Settings!window
<1>2. ChainTyped' /\ WaitersTyped' /\ ResetWaits' /\ (Unsent' <=> Unsent)
  BY <1>1, WaitsStay
<1>3. RestTyped'
  <2>1. kept' \in Settings!Docs /\ events' \in Nat
    BY <1>0, <1>1 DEF RestTyped
  <2> QED BY <1>0, <1>1, <2>1, NoDocTyped DEF RestTyped
<1>4. SomethingComes => SomethingComes'
  <2>1. events' = events + 1 => events' > 0
    BY <1>0 DEF RestTyped
  <2> QED BY <1>1, <1>2, <2>1 DEF SomethingComes, Settings!Due
<1> QED BY <1>1, <1>2, <1>3, <1>4, SettingsTypedNext DEF SettingsInv

(* A notice is passed over only while the window is about to write, or shows what is
   stored. *)
LEMMA ChangedInv == ASSUME SettingsInv, Settings!Changed PROVE SettingsInv'
<1>0. RestTyped /\ ChainTyped
  BY SettingsTyped DEF SettingsInv
<1>1. /\ UNCHANGED <<kept, shown, made, due, chain, lastOk, reset, keys, tray, failed>>
      /\ events > 0 /\ events' = events - 1
  BY DEF Settings!Changed
<1>2. ChainTyped' /\ WaitersTyped' /\ ResetWaits' /\ (Unsent' <=> Unsent)
  BY <1>1, WaitsStay
<1>3. CASE Settings!Due \/ Settings!Saving
  <2>1. /\ UNCHANGED reads
        /\ crossed' = (crossed \/ (~Settings!Due /\ kept # shown /\
                                   \A i \in 1..Len(chain) : chain[i].at \in {"stored", "failed"}))
    BY <1>3 DEF Settings!Changed
  <2>2. RestTyped'
    <3>1. crossed' \in BOOLEAN /\ events' \in Nat
      BY <1>0, <1>1, <2>1 DEF RestTyped
    <3> QED BY <1>0, <1>1, <2>1, <3>1 DEF RestTyped
  <2>3. ASSUME ~crossed' PROVE SomethingComes'
    <3>1. Settings!Due \/ kept = shown \/ Unsent
      <4>1. \A i \in 1..Len(chain) : chain[i].at \in {"queued", "resolved", "stored", "failed"}
        BY <1>0, ChainIsTyped DEF SaveRecord
      <4> QED BY <2>1, <2>3, <4>1 DEF Unsent
    <3> QED BY <1>1, <1>2, <3>1 DEF SomethingComes, Settings!Due
  <2> QED BY <1>2, <2>2, <2>3, SettingsTypedNext DEF SettingsInv
<1>4. CASE ~(Settings!Due \/ Settings!Saving)
  <2> DEFINE no == CHOOSE n \in 1..MaxReads : \A r \in reads : r.no # n
  <2>1. /\ UNCHANGED crossed /\ \E n \in 1..MaxReads : \A r \in reads : r.no # n
        /\ reads' = reads \cup {[no |-> no, at |-> "sent", doc |-> Settings!Default]}
    BY <1>4 DEF Settings!Changed, Settings!ReadAgain, Settings!FreeRead
  <2>2. no \in 1..MaxReads
    BY <2>1
  <2> HIDE DEF no
  <2>3. RestTyped'
    <3>1. events' \in Nat
      BY <1>0, <1>1 DEF RestTyped
    <3> QED BY <1>0, <1>1, <2>1, <2>2, <3>1, NoDocTyped DEF RestTyped
  <2>4. SomethingComes'
    BY <2>1 DEF SomethingComes
  <2> QED BY <1>2, <2>3, <2>4, SettingsTypedNext DEF SettingsInv
<1> QED BY <1>3, <1>4

LEMMA ReadAnswersInv == ASSUME SettingsInv, NEW r \in reads, Settings!Answer(r) PROVE SettingsInv'
<1>0. RestTyped /\ r \in [no : 1..MaxReads, at : {"sent", "read"}, doc : Settings!Docs]
  BY SettingsTyped DEF SettingsInv, RestTyped
<1>1. /\ UNCHANGED <<kept, shown, made, due, chain, lastOk, reset, keys, tray, events, crossed>>
      /\ \/ reads' = (reads \ {r}) \cup {[r EXCEPT !.at = "read", !.doc = kept]} /\ UNCHANGED failed
         \/ reads' = reads \ {r} /\ failed' = TRUE
  BY DEF Settings!Answer
<1>2. ChainTyped' /\ WaitersTyped' /\ ResetWaits'
  BY <1>1, WaitsStay
<1>3. RestTyped'
  <2>1. [r EXCEPT !.at = "read", !.doc = kept] \in [no : 1..MaxReads, at : {"sent", "read"}, doc : Settings!Docs]
    BY <1>0 DEF RestTyped
  <2>2. failed' \in BOOLEAN
    BY <1>0, <1>1 DEF RestTyped
  <2> QED BY <1>0, <1>1, <2>1, <2>2 DEF RestTyped
<1>4. failed' \/ SomethingComes'
  BY <1>1 DEF SomethingComes
<1> QED BY <1>2, <1>3, <1>4, SettingsTypedNext DEF SettingsInv

LEMMA LandInv == ASSUME SettingsInv, NEW r \in reads, Settings!Land(r) PROVE SettingsInv'
<1>0. RestTyped /\ r \in [no : 1..MaxReads, at : {"sent", "read"}, doc : Settings!Docs]
  BY SettingsTyped DEF SettingsInv, RestTyped
<1>1. /\ UNCHANGED <<kept, made, due, chain, lastOk, reset, keys, tray, events, failed>>
      /\ reads' = reads \ {r} /\ shown' = r.doc
      /\ crossed' = (crossed \/ Settings!Due \/ chain # <<>> \/ r.doc # kept)
  BY DEF Settings!Land
<1>2. ChainTyped' /\ WaitersTyped' /\ ResetWaits'
  BY <1>1, WaitsStay
<1>3. RestTyped'
  <2>1. shown' \in Settings!Docs
    BY <1>0, <1>1
  <2>2. crossed' \in BOOLEAN
    BY <1>0, <1>1 DEF RestTyped
  <2> QED BY <1>0, <1>1, <2>1, <2>2 DEF RestTyped
<1>4. crossed' \/ SomethingComes'
  BY <1>1 DEF SomethingComes
<1> QED BY <1>2, <1>3, <1>4, SettingsTypedNext DEF SettingsInv

(* Every step keeps the settings true. *)
LEMMA SettingsNextInv == ASSUME SettingsInv, Settings!Next PROVE SettingsInv'
<1>1. ASSUME NEW k \in Keys, Settings!SetSetting(k) \/ Settings!TrayReads(k) PROVE SettingsInv'
  BY <1>1, SetSettingInv, TrayReadsInv
<1>2. CASE Settings!SaveToBackend \/ Settings!Resolve \/ Settings!Store \/ Settings!WriteReply
  BY <1>2, SaveToBackendInv, ResolveInv, StoreInv, WriteReplyInv
<1>3. CASE Settings!PressReset \/ Settings!ResetStored \/ Settings!ResetReply
  BY <1>3, PressResetInv, ResetStoredInv, ResetReplyInv
<1>4. ASSUME NEW mode \in {"replace", "clear"}, Settings!PressKeys(mode) PROVE SettingsInv'
  BY <1>4, PressKeysInv
<1>5. CASE Settings!TrayStores \/ Settings!Changed
  BY <1>5, TrayStoresInv, ChangedInv
<1>6. ASSUME NEW r \in reads, Settings!Answer(r) \/ Settings!Land(r) PROVE SettingsInv'
  BY <1>6, ReadAnswersInv, LandInv
<1> QED BY <1>1, <1>2, <1>3, <1>4, <1>5, <1>6
        DEF Settings!Next, Settings!GeneralPanel, Settings!CredentialsGroup

LEMMA SettingsStay == ASSUME SettingsInv, UNCHANGED settingsVars PROVE SettingsInv'
<1>1. UNCHANGED <<kept, shown, made, due, chain, lastOk, reset, keys, tray, reads, events, failed, crossed>>
  BY DEF settingsVars
<1>2. ChainTyped' /\ WaitersTyped' /\ ResetWaits' /\ (Unsent' <=> Unsent)
  BY <1>1, WaitsStay
<1>3. RestTyped' /\ (failed' <=> failed) /\ (crossed' <=> crossed) /\ (SomethingComes' <=> SomethingComes)
  BY <1>1, <1>2, SettingsTyped DEF SettingsInv, RestTyped, SomethingComes, Settings!Due
<1> QED BY <1>2, <1>3, SettingsTypedNext DEF SettingsInv

--------------------------------------------------------------------------------
(* The connection list. *)

LEMMA ListBounds == MaxID \in Nat \ {0} /\ MaxCalls \in Nat \ {0} /\ List!NoId = 0
BY ListAssumption, DockAssumption DEF List!NoId

Snaps == [List!Ids -> List!Statuses]
CallRecord == [op : {"none", "load", "create"} \cup List!RowCalls, id : Nat, by : {"row", "bulk"},
               at : {"rest", "sent", "answered", "reading", "read"}, ok : BOOLEAN, snap : Snaps, of : Int]

(* A call of a row has its row, and a profile that was created its id.  A call that has
   returned is nobody's. *)
CallOfRow(call) ==
    /\ call.op \in List!RowCalls => call.id \in List!Ids
    /\ call.op = "create" /\ call.at \in {"reading", "read"} => call.id \in List!Ids
    /\ call.op = "create" /\ call.at = "answered" /\ call.ok => call.id \in List!Ids
    /\ call.at \in {"sent", "answered"} => call.op \in {"create"} \cup List!RowCalls
    /\ call.at \in {"reading", "read"} => call.op \in {"load", "create"}
    /\ call.at = "rest" => call = List!Rest

CallsTyped == listCalls \in [List!Slots -> CallRecord] /\ \A s \in List!Slots : CallOfRow(listCalls[s])

ListTyped ==
    /\ go \in Snaps /\ list \in Snaps /\ nextID \in Nat /\ nextID > 0
    /\ version \in Nat /\ listShown \in Int /\ missed \in BOOLEAN
    /\ elsewhere \in Int /\ elsewhere <= version
    /\ pending \in [List!Ids -> {"idle", "connecting", "testing", "disconnecting"}]
    /\ bulk \in [at : {"off", "asking", "running"}, action : {"none"} \cup List!BulkActions,
                 queue : SUBSET List!Ids, stop : BOOLEAN]
    /\ bulk.at # "off" => bulk.action \in List!BulkActions

(* A version of the list is Go's of that time. *)
Versions ==
    /\ listShown <= version /\ (listShown = version => list = go)
    /\ \A s \in List!Slots : listCalls[s].at = "read" =>
          /\ listCalls[s].of <= version
          /\ listCalls[s].of = version => listCalls[s].snap = go

(* A call that ends with the newest list, or says that it was missed.  Only a change
   made elsewhere can be the newest with no such call. *)
Brings(call) ==
    \/ call.at = "reading"
    \/ call.at = "answered" /\ (call.ok \/ call.op \in List!Dials \cup {"update"})
    \/ call.at = "read" /\ call.of = version

NewestComes ==
    missed \/ listShown = version \/ elsewhere = version
    \/ \E s \in List!Slots : Brings(listCalls[s])

(* One call at a time is of the action over several rows, and only while it runs. *)
OneByBulk ==
    /\ \A s, t \in List!Slots : listCalls[s].by = "bulk" /\ listCalls[t].by = "bulk" => s = t
    /\ (\E s \in List!Slots : listCalls[s].by = "bulk") => bulk.at = "running"

ListInv ==
    CallsTyped /\ ListTyped /\ Versions /\ NewestComes /\ List!PendingHasCall /\ OneByBulk

(* It says what the run checks: with every call returned, nothing brings a newer list
   than the one shown. *)
LEMMA ListInvImplies == ListInv => List!TypeOK /\ List!ListIsFresh
<1> SUFFICES ASSUME ListInv PROVE List!TypeOK /\ List!ListIsFresh
  OBVIOUS
<1>1. List!TypeOK
  BY DEF ListInv, CallsTyped, CallRecord, ListTyped, Snaps, List!TypeOK
<1>2. List!ListIsFresh
  <2> SUFFICES ASSUME List!Busy = {}, ~missed, elsewhere <= listShown PROVE list = go
    BY DEF List!ListIsFresh
  <2>1. \A s \in List!Slots : listCalls[s].at = "rest"
    BY DEF List!Busy
  <2>2. listShown = version
    <3>1. listShown = version \/ elsewhere = version
      BY <2>1 DEF ListInv, NewestComes, Brings
    <3>2. listShown <= version /\ listShown \in Int /\ version \in Int
      BY DEF ListInv, Versions, ListTyped
    <3> QED BY <3>1, <3>2
  <2> QED BY <2>2 DEF ListInv, Versions
<1> QED BY <1>1, <1>2

LEMMA RestTyped0 ==
    /\ List!Rest \in CallRecord /\ CallOfRow(List!Rest)
    /\ List!Rest.op = "none" /\ List!Rest.at = "rest" /\ List!Rest.by = "row" /\ List!Rest.of = -1
    /\ [id \in List!Ids |-> "absent"] \in Snaps
<1>1. [id \in List!Ids |-> "absent"] \in Snaps
  BY DEF Snaps, List!Statuses
<1>2. List!Rest \in CallRecord
  BY <1>1, ListBounds DEF List!Rest, CallRecord
<1> QED BY <1>1, <1>2 DEF List!Rest, CallOfRow, List!RowCalls, List!Dials

LEMMA SentIs ==
    ASSUME NEW op \in {"create"} \cup List!RowCalls, NEW id \in Nat, NEW by \in {"row", "bulk"},
           op \in List!RowCalls => id \in List!Ids
    PROVE  /\ List!Sent(op, id, by) \in CallRecord /\ CallOfRow(List!Sent(op, id, by))
           /\ List!Sent(op, id, by).op = op /\ List!Sent(op, id, by).id = id
           /\ List!Sent(op, id, by).by = by /\ List!Sent(op, id, by).at = "sent"
<1> DEFINE call == List!Sent(op, id, by)
<1>1. call \in CallRecord /\ call.op = op /\ call.id = id /\ call.by = by /\ call.at = "sent"
  BY RestTyped0 DEF List!Sent, CallRecord
<1> HIDE DEF call
<1>2. CallOfRow(call)
  BY <1>1 DEF CallOfRow
<1> QED BY <1>1, <1>2 DEF call

LEMMA ReadingIs ==
    ASSUME NEW call \in CallRecord, call.op = "create" => call.id \in List!Ids
    PROVE  /\ List!Reading(call) \in CallRecord /\ CallOfRow(List!Reading(call))
           /\ List!Reading(call).op \in {"load", "create"}
           /\ List!Reading(call).by = call.by /\ List!Reading(call).at = "reading"
<1> DEFINE next == List!Reading(call)
<1>1. "load" \notin List!RowCalls /\ "create" \notin List!RowCalls
  BY DEF List!RowCalls, List!Dials
<1>2. CASE call.op = "create"
  <2>1. next \in CallRecord /\ next.op = "create" /\ next.id = call.id /\ next.by = call.by /\ next.at = "reading"
    BY <1>2, RestTyped0 DEF List!Reading, CallRecord
  <2> HIDE DEF next
  <2>2. CallOfRow(next)
    BY <1>1, <1>2, <2>1 DEF CallOfRow
  <2> QED BY <2>1, <2>2 DEF next
<1>3. CASE call.op # "create"
  <2>1. next \in CallRecord /\ next.op = "load" /\ next.by = call.by /\ next.at = "reading"
    BY <1>3, RestTyped0, ListBounds DEF List!Reading, CallRecord
  <2> HIDE DEF next
  <2>2. CallOfRow(next)
    BY <1>1, <2>1 DEF CallOfRow
  <2> QED BY <2>1, <2>2 DEF next
<1> QED BY <1>2, <1>3

LEMMA ListInitInv == List!Init => ListInv
<1> SUFFICES ASSUME List!Init PROVE ListInv
  OBVIOUS
<1> USE DEF List!Init
<1>1. /\ List!Mount \in CallRecord /\ CallOfRow(List!Mount) /\ List!Mount.at = "reading"
      /\ List!Mount.by = "row"
  BY RestTyped0, ReadingIs DEF List!Mount
<1>2. 1 \in List!Slots
  BY ListBounds DEF List!Slots
<1>3. CallsTyped /\ \A s \in List!Slots : listCalls[s].at # "read" /\ listCalls[s].by = "row"
  BY <1>1, RestTyped0 DEF CallsTyped
<1>4. listCalls[1].at = "reading"
  BY <1>1, <1>2
<1>5. ListTyped
  <2>1. go \in Snaps /\ list \in Snaps
    BY RestTyped0 DEF Snaps, List!Statuses
  <2>2. nextID \in Nat /\ nextID > 0
    BY ListBounds
  <2>4. version \in Nat /\ elsewhere \in Int /\ elsewhere <= version
    OBVIOUS
  <2>5. listShown \in Int
    OBVIOUS
  <2>6. missed \in BOOLEAN
    OBVIOUS
  <2>3. bulk = List!NoBulk /\ pending = [id \in List!Ids |-> "idle"]
    OBVIOUS
  <2> QED BY <2>1, <2>2, <2>3, <2>4, <2>5, <2>6 DEF ListTyped, List!NoBulk
<1>6. Versions
  BY <1>3 DEF Versions
<1>7. NewestComes
  BY <1>2, <1>4 DEF NewestComes, Brings
<1>8. List!PendingHasCall /\ OneByBulk
  BY <1>3 DEF List!PendingHasCall, OneByBulk
<1> QED BY <1>3, <1>5, <1>6, <1>7, <1>8 DEF ListInv

--------------------------------------------------------------------------------
(* One call goes a step further. *)

(* The parts of the invariant that only the slots' calls are in. *)
LEMMA CallChanges ==
    ASSUME ListInv, NEW s \in List!Slots, NEW call \in CallRecord, CallOfRow(call),
           listCalls' = [listCalls EXCEPT ![s] = call],
           call.by = listCalls[s].by \/ call.by = "row",
           bulk' = bulk
    PROVE  /\ CallsTyped' /\ OneByBulk' /\ listCalls'[s] = call
           /\ \A t \in List!Slots : t # s => listCalls'[t] = listCalls[t]
<1>1. /\ listCalls'[s] = call /\ \A t \in List!Slots : t # s => listCalls'[t] = listCalls[t]
      /\ listCalls' \in [List!Slots -> CallRecord]
  BY DEF ListInv, CallsTyped
<1>2. CallsTyped'
  BY <1>1 DEF ListInv, CallsTyped
<1>3. \A t \in List!Slots : listCalls'[t].by = "bulk" => listCalls[t].by = "bulk"
  BY <1>1
<1>4. OneByBulk'
  BY <1>3 DEF ListInv, OneByBulk
<1> QED BY <1>1, <1>2, <1>4

(* While Go does not change, versions are only of lists that were read. *)
LEMMA VersionsStay ==
    ASSUME ListInv, NEW s \in List!Slots, UNCHANGED <<go, version>>,
           \A t \in List!Slots : t # s => listCalls'[t] = listCalls[t],
           listCalls'[s].at = "read" => listCalls'[s].of = version /\ listCalls'[s].snap = go,
           listShown' <= version, listShown' = version => list' = go, version \in Nat
    PROVE  Versions'
<1>2. ASSUME NEW t \in List!Slots, listCalls'[t].at = "read"
      PROVE  listCalls'[t].of <= version /\ (listCalls'[t].of = version => listCalls'[t].snap = go)
  <2>1. CASE t = s
    BY <1>2, <2>1
  <2>2. CASE t # s
    BY <1>2, <2>2 DEF ListInv, Versions
  <2> QED BY <2>1, <2>2
<1> QED BY <1>2 DEF Versions

LEMMA ReadListInv == ASSUME ListInv, NEW s \in List!Slots, List!ReadList(s) PROVE ListInv'
<1> DEFINE call == [listCalls[s] EXCEPT !.at = "read", !.snap = go, !.of = version]
<1>1. /\ listCalls[s] \in CallRecord /\ listCalls[s].at = "reading" /\ CallOfRow(listCalls[s])
      /\ go \in Snaps /\ version \in Nat
  BY DEF ListInv, CallsTyped, ListTyped, List!ReadList
<1>2. /\ listCalls' = [listCalls EXCEPT ![s] = call]
      /\ UNCHANGED <<go, nextID, version, elsewhere, list, listShown, missed, pending, bulk>>
  BY <1>1 DEF List!ReadList, List!goVars, List!listVars, ListInv, CallsTyped
<1>0. call \in CallRecord
  <2>1. version \in Int
    BY <1>1
  <2> QED BY <1>1, <2>1 DEF CallRecord
<1>3. /\ call \in CallRecord /\ call.at = "read" /\ call.op = listCalls[s].op /\ call.id = listCalls[s].id
      /\ call.by = listCalls[s].by /\ call.of = version /\ call.snap = go
  BY <1>0, <1>1 DEF CallRecord
<1> HIDE DEF call
<1>4. CallOfRow(call)
  BY <1>1, <1>3 DEF CallOfRow
<1>5. /\ CallsTyped' /\ OneByBulk' /\ listCalls'[s] = call
      /\ \A t \in List!Slots : t # s => listCalls'[t] = listCalls[t]
  BY <1>2, <1>3, <1>4, CallChanges
<1>6. Versions'
  BY <1>1, <1>2, <1>3, <1>5, VersionsStay DEF ListInv, Versions
<1>7. NewestComes'
  BY <1>2, <1>3, <1>5 DEF ListInv, NewestComes, Brings
<1>8. List!PendingHasCall'
  BY <1>1, <1>2, <1>5 DEF ListInv, List!PendingHasCall
<1>9. ListTyped'
  BY <1>2 DEF ListInv, ListTyped
<1> QED BY <1>5, <1>6, <1>7, <1>8, <1>9 DEF ListInv

(* What Go does with a call: a profile it changed is one whose call says so. *)
LEMMA OutcomeIs ==
    ASSUME NEW op \in {"create"} \cup List!RowCalls, NEW status \in List!Statuses,
           NEW r \in List!Outcomes(op, status)
    PROVE  /\ r.ok \in BOOLEAN /\ r.status \in List!Statuses
           /\ r.status # status /\ op # "create" => r.ok \/ op \in List!Dials \cup {"update"}
<1> USE DEF List!Outcomes, List!Result, List!Statuses
<1>1. CASE op = "create" \/ status = "absent"
  <2>1. \/ r = List!Result(TRUE, "offline")
        \/ r = List!Result(FALSE, "absent") /\ (op = "create" \/ status = "absent")
    BY <1>1
  <2>2. r.ok = TRUE \/ r.ok = FALSE
    BY <2>1
  <2>3. r.status \in List!Statuses /\ (op # "create" => r.status = status \/ r.ok)
    BY <1>1, <2>1
  <2> QED BY <2>2, <2>3
<1>2. ASSUME op # "create", status # "absent"
      PROVE  /\ r.ok \in BOOLEAN /\ r.status \in List!Statuses
             /\ r.status # status => r.ok \/ op \in List!Dials \cup {"update"}
  <2>1. op \in {"connect", "scope", "test", "disconnect", "delete", "default", "update"}
    BY <1>2 DEF List!RowCalls, List!Dials
  <2>2. PICK ok \in BOOLEAN, next \in List!Statuses :
          r = List!Result(ok, next) /\ (op \in {"delete", "default"} => ok \/ next = status)
    BY <1>2, <2>1
  <2>3. (r.ok <=> ok) /\ r.status = next
    BY <2>2
  <2>4. r.ok \in BOOLEAN
    BY <2>2
  <2> QED BY <2>1, <2>2, <2>3, <2>4 DEF List!Dials
<1> QED BY <1>1, <1>2

LEMMA AnswerInv == ASSUME ListInv, NEW s \in List!Slots, List!Answer(s) PROVE ListInv'
<1>1. /\ listCalls[s] \in CallRecord /\ CallOfRow(listCalls[s]) /\ listCalls[s].at = "sent"
      /\ listCalls[s].op \in {"create"} \cup List!RowCalls
      /\ go \in Snaps /\ version \in Nat /\ nextID \in Nat /\ nextID > 0
  BY DEF ListInv, CallsTyped, ListTyped, List!Answer, CallOfRow
<1> DEFINE op == listCalls[s].op
           id == IF op = "create" THEN nextID ELSE listCalls[s].id
           before == IF op = "create" THEN "absent" ELSE go[id]
<1>2. PICK r \in List!Outcomes(op, IF op = "create" THEN "absent" ELSE go[listCalls[s].id]) :
        /\ op = "create" /\ r.ok => nextID <= MaxID
        /\ go' = IF r.ok \/ op # "create" THEN [go EXCEPT ![id] = r.status] ELSE go
        /\ nextID' = IF op = "create" /\ r.ok THEN nextID + 1 ELSE nextID
        /\ version' = IF go' = go THEN version ELSE version + 1
        /\ listCalls' = [listCalls EXCEPT ![s].at = "answered", ![s].ok = r.ok, ![s].id = id]
  <2> HIDE DEF id
  <2>1. id = IF op = "create" THEN nextID ELSE listCalls[s].id
    BY DEF id
  <2>2. ~(op = "create") => id = listCalls[s].id
    BY <2>1
  <2> QED BY <2>1, <2>2 DEF List!Answer
<1>3. UNCHANGED <<elsewhere, list, listShown, missed, pending, bulk>>
  BY DEF List!Answer, List!listVars
<1>4. id \in Nat /\ (op \in List!RowCalls => id \in List!Ids) /\ (op # "create" => id = listCalls[s].id)
  <2>1. op # "create" => op \in List!RowCalls
    BY <1>1
  <2>2. "create" \notin List!RowCalls
    BY DEF List!RowCalls, List!Dials
  <2>3. listCalls[s].id \in Nat
    BY <1>1 DEF CallRecord
  <2> QED BY <1>1, <2>1, <2>2, <2>3 DEF CallOfRow
<1>5. op = "create" /\ r.ok => id \in List!Ids
  BY <1>1, <1>2, ListBounds DEF List!Ids
<1> HIDE DEF id
<1>6. before \in List!Statuses /\ r \in List!Outcomes(op, before)
  <2>1. op # "create" => id \in List!Ids
    BY <1>1, <1>4
  <2>2. op # "create" => go[id] \in List!Statuses
    BY <1>1, <2>1 DEF Snaps
  <2> QED BY <1>2, <1>4, <2>2 DEF List!Statuses
<1>7. /\ r.ok \in BOOLEAN /\ r.status \in List!Statuses
      /\ r.status # before /\ op # "create" => r.ok \/ op \in List!Dials \cup {"update"}
  BY <1>1, <1>6, OutcomeIs
<1> DEFINE call == [listCalls[s] EXCEPT !.at = "answered", !.ok = r.ok, !.id = id]
<1>8. /\ call \in CallRecord /\ call.at = "answered" /\ call.op = op /\ call.id = id
      /\ call.by = listCalls[s].by /\ call.ok = r.ok
  BY <1>1, <1>4, <1>7 DEF CallRecord
<1>9. listCalls' = [listCalls EXCEPT ![s] = call]
  BY <1>1, <1>2 DEF ListInv, CallsTyped, CallRecord
<1> HIDE DEF call
<1>10. CallOfRow(call)
  BY <1>1, <1>4, <1>5, <1>8 DEF CallOfRow
<1>11. /\ CallsTyped' /\ OneByBulk' /\ listCalls'[s] = call
       /\ \A t \in List!Slots : t # s => listCalls'[t] = listCalls[t]
  BY <1>3, <1>8, <1>9, <1>10, CallChanges
<1>12. go' # go => r.ok \/ op \in List!Dials \cup {"update"}
  <2> SUFFICES ASSUME go' # go PROVE r.ok \/ op \in List!Dials \cup {"update"}
    OBVIOUS
  <2>1. CASE op = "create"
    BY <1>2, <2>1
  <2>2. CASE op # "create"
    <3>1. r.status # go[id]
      BY <1>1, <1>2, <2>2 DEF Snaps
    <3> QED BY <1>7, <2>2, <3>1
  <2> QED BY <2>1, <2>2
<1>13. version' \in Nat /\ version' >= version /\ (version' = version <=> go' = go)
  BY <1>1, <1>2
<1>14. go' \in Snaps
  BY <1>1, <1>2, <1>7 DEF Snaps
<1>15. nextID' \in Nat /\ nextID' > 0
  BY <1>1, <1>2
<1>16. ListTyped'
  BY <1>3, <1>13, <1>14, <1>15 DEF ListInv, ListTyped
<1>17. Versions'
  <2>1. listShown' <= version' /\ (listShown' = version' => list' = go')
    BY <1>1, <1>3, <1>13 DEF ListInv, Versions, ListTyped
  <2>2. ASSUME NEW t \in List!Slots, listCalls'[t].at = "read"
        PROVE  listCalls'[t].of <= version' /\ (listCalls'[t].of = version' => listCalls'[t].snap = go')
    <3>1. listCalls'[t] = listCalls[t] /\ listCalls[t].of \in Int
      BY <1>8, <1>11, <2>2 DEF ListInv, CallsTyped, CallRecord
    <3> QED BY <1>1, <1>13, <2>2, <3>1 DEF ListInv, Versions
  <2> QED BY <2>1, <2>2 DEF Versions
<1>18. NewestComes'
  <2>1. CASE go' # go
    <3>1. /\ listCalls'[s].at = "answered"
          /\ listCalls'[s].ok \/ listCalls'[s].op \in List!Dials \cup {"update"}
      BY <1>8, <1>11, <1>12, <2>1
    <3> QED BY <3>1 DEF NewestComes, Brings
  <2>2. CASE go' = go
    <3>1. version' = version /\ ~Brings(listCalls[s])
      BY <1>1, <1>13, <2>2 DEF Brings
    <3> QED BY <1>3, <1>11, <3>1 DEF ListInv, NewestComes, Brings
  <2> QED BY <2>1, <2>2
<1>19. List!PendingHasCall'
  <2> SUFFICES ASSUME NEW i \in List!Ids, pending'[i] # "idle"
               PROVE  \E t \in List!Slots : /\ listCalls'[t].id = i /\ listCalls'[t].op \in List!Dials
                                            /\ listCalls'[t].at \in {"sent", "answered"}
    BY DEF List!PendingHasCall
  <2>1. PICK t \in List!Slots : /\ listCalls[t].id = i /\ listCalls[t].op \in List!Dials
                                /\ listCalls[t].at \in {"sent", "answered"}
    BY <1>3 DEF ListInv, List!PendingHasCall
  <2>2. "create" \notin List!Dials
    BY DEF List!Dials
  <2>3. CASE t = s
    BY <1>4, <1>8, <1>11, <2>1, <2>2, <2>3
  <2> QED BY <1>11, <2>1, <2>3
<1> QED BY <1>11, <1>16, <1>17, <1>18, <1>19 DEF ListInv

(* Go changes for another reason: no list that was shown or read is of the new version. *)
LEMMA ElsewhereInv == ASSUME ListInv, List!Elsewhere PROVE ListInv'
<1>1. /\ version' = version + 1 /\ elsewhere' = version' /\ version \in Nat
      /\ UNCHANGED <<list, listShown, missed, pending, listCalls, bulk>>
  BY DEF ListInv, ListTyped, List!Elsewhere, List!listVars
<1>2. go' \in Snaps /\ nextID' \in Nat /\ nextID' > 0
  BY ListBounds DEF List!Elsewhere, Snaps
<1>3. CallsTyped' /\ List!PendingHasCall' /\ OneByBulk'
  BY <1>1 DEF ListInv, CallsTyped, List!PendingHasCall, OneByBulk
<1>4. ListTyped'
  <2>1. version' \in Nat /\ elsewhere' \in Int /\ elsewhere' <= version'
    BY <1>1
  <2> QED BY <1>1, <1>2, <2>1 DEF ListInv, ListTyped
<1>5. Versions'
  <2>1. listShown \in Int /\ \A s \in List!Slots : listCalls[s].of \in Int
    BY DEF ListInv, ListTyped, CallsTyped, CallRecord
  <2>2. listShown <= version /\ \A s \in List!Slots : listCalls[s].at = "read" => listCalls[s].of <= version
    BY DEF ListInv, Versions
  <2> QED BY <1>1, <2>1, <2>2 DEF Versions
<1>6. NewestComes'
  BY <1>1 DEF NewestComes
<1> QED BY <1>3, <1>4, <1>5, <1>6 DEF ListInv

(* The answer arrives at the window. *)
LEMMA ContinueInv == ASSUME ListInv, NEW s \in List!Slots, List!Continue(s) PROVE ListInv'
<1> DEFINE op == listCalls[s].op
           again == listCalls[s].ok \/ op \in List!Dials
           call == IF again THEN List!Reading(listCalls[s]) ELSE List!Rest
<1>1. /\ listCalls[s] \in CallRecord /\ CallOfRow(listCalls[s]) /\ listCalls[s].at = "answered"
      /\ listCalls[s].id \in Nat /\ version \in Nat
      /\ pending \in [List!Ids -> {"idle", "connecting", "testing", "disconnecting"}]
  BY DEF ListInv, CallsTyped, CallRecord, ListTyped, List!Continue
<1>2. /\ listCalls' = [listCalls EXCEPT ![s] = call]
      /\ pending' = IF op \in List!Dials THEN [pending EXCEPT ![listCalls[s].id] = "idle"] ELSE pending
      /\ missed' = (missed \/ (~again /\ op = "update"))
      /\ UNCHANGED <<go, nextID, version, elsewhere, list, listShown, bulk>>
  BY DEF List!Continue, List!goVars
<1>3. "create" \notin List!Dials /\ "update" \notin List!Dials
  BY DEF List!Dials
<1>4. /\ call \in CallRecord /\ CallOfRow(call) /\ call.at # "read"
      /\ call.by = listCalls[s].by \/ call.by = "row"
      /\ again => call.at = "reading"
  <2>1. CASE again
    <3>1. op = "create" => listCalls[s].id \in List!Ids
      BY <1>1, <1>3, <2>1 DEF CallOfRow
    <3> QED BY <1>1, <2>1, <3>1, ReadingIs
  <2>2. CASE ~again
    BY <2>2, RestTyped0
  <2> QED BY <2>1, <2>2
<1> HIDE DEF call
<1>5. /\ CallsTyped' /\ OneByBulk' /\ listCalls'[s] = call
      /\ \A t \in List!Slots : t # s => listCalls'[t] = listCalls[t]
  BY <1>2, <1>4, CallChanges
<1>6. ListTyped'
  <2>1. pending' \in [List!Ids -> {"idle", "connecting", "testing", "disconnecting"}]
    BY <1>1, <1>2
  <2>2. missed' \in BOOLEAN
    BY <1>2 DEF ListInv, ListTyped
  <2> QED BY <1>2, <2>1, <2>2 DEF ListInv, ListTyped
<1>7. Versions'
  BY <1>1, <1>2, <1>4, <1>5, VersionsStay DEF ListInv, Versions
<1>8. NewestComes'
  <2>1. CASE Brings(listCalls[s])
    <3>1. again \/ op = "update"
      BY <1>1, <2>1 DEF Brings
    <3>2. again => listCalls'[s].at = "reading"
      BY <1>4, <1>5
    <3> QED BY <1>2, <3>1, <3>2 DEF NewestComes, Brings
  <2>2. CASE ~Brings(listCalls[s])
    BY <1>2, <1>5, <2>2 DEF ListInv, NewestComes, Brings
  <2> QED BY <2>1, <2>2
<1>9. List!PendingHasCall'
  <2> SUFFICES ASSUME NEW i \in List!Ids, pending'[i] # "idle"
               PROVE  \E t \in List!Slots : /\ listCalls'[t].id = i /\ listCalls'[t].op \in List!Dials
                                            /\ listCalls'[t].at \in {"sent", "answered"}
    BY DEF List!PendingHasCall
  <2>1. pending'[i] = pending[i] /\ ~(op \in List!Dials /\ listCalls[s].id = i)
    BY <1>1, <1>2
  <2>2. PICK t \in List!Slots : /\ listCalls[t].id = i /\ listCalls[t].op \in List!Dials
                                /\ listCalls[t].at \in {"sent", "answered"}
    BY <2>1 DEF ListInv, List!PendingHasCall
  <2> QED BY <1>5, <2>1, <2>2
<1> QED BY <1>5, <1>6, <1>7, <1>8, <1>9 DEF ListInv

(* The list came, or could not be read: the call is over, and a profile just created is
   dialled. *)
LEMMA FinishIs ==
    ASSUME ListInv, NEW s \in List!Slots, NEW loaded \in BOOLEAN, List!Finish(s, loaded),
           listCalls[s].at \in {"reading", "read"}, UNCHANGED bulk
    PROVE  /\ CallsTyped' /\ OneByBulk' /\ List!PendingHasCall'
           /\ \A t \in List!Slots : t # s => listCalls'[t] = listCalls[t]
           /\ listCalls'[s].at # "read"
           /\ pending' \in [List!Ids -> {"idle", "connecting", "testing", "disconnecting"}]
<1> DEFINE dials == listCalls[s].op = "create" /\ loaded
           i == listCalls[s].id
           call == IF dials THEN List!Sent("connect", i, "row") ELSE List!Rest
<1>1. /\ listCalls[s] \in CallRecord /\ CallOfRow(listCalls[s]) /\ i \in Nat
      /\ pending \in [List!Ids -> {"idle", "connecting", "testing", "disconnecting"}]
      /\ "create" \notin List!Dials /\ "connect" \in List!Dials /\ "connect" \in List!RowCalls
  BY DEF ListInv, CallsTyped, CallRecord, ListTyped, List!RowCalls, List!Dials
<1>2. /\ listCalls' = [listCalls EXCEPT ![s] = call]
      /\ pending' = IF dials THEN [pending EXCEPT ![i] = "connecting"] ELSE pending
  BY DEF List!Finish
<1>3. dials => i \in List!Ids
  BY <1>1 DEF CallOfRow
<1>4. /\ call \in CallRecord /\ CallOfRow(call) /\ call.at # "read" /\ call.by = "row"
      /\ dials => call.at = "sent" /\ call.op = "connect" /\ call.id = i
  <2>1. CASE dials
    BY <1>1, <1>3, <2>1, SentIs
  <2>2. CASE ~dials
    BY <2>2, RestTyped0
  <2> QED BY <2>1, <2>2
<1> HIDE DEF call
<1>5. /\ CallsTyped' /\ OneByBulk' /\ listCalls'[s] = call
      /\ \A t \in List!Slots : t # s => listCalls'[t] = listCalls[t]
  BY <1>2, <1>4, CallChanges
<1>6. List!PendingHasCall'
  <2> SUFFICES ASSUME NEW j \in List!Ids, pending'[j] # "idle"
               PROVE  \E t \in List!Slots : /\ listCalls'[t].id = j /\ listCalls'[t].op \in List!Dials
                                            /\ listCalls'[t].at \in {"sent", "answered"}
    BY DEF List!PendingHasCall
  <2>1. CASE dials /\ i = j
    BY <1>1, <1>4, <1>5, <2>1
  <2>2. CASE ~(dials /\ i = j)
    <3>1. PICK t \in List!Slots : /\ listCalls[t].id = j /\ listCalls[t].op \in List!Dials
                                  /\ listCalls[t].at \in {"sent", "answered"}
      BY <1>1, <1>2, <2>2 DEF ListInv, List!PendingHasCall
    <3> QED BY <1>5, <3>1
  <2> QED BY <2>1, <2>2
<1> QED BY <1>1, <1>2, <1>4, <1>5, <1>6

LEMMA ListArrivesInv == ASSUME ListInv, NEW s \in List!Slots, List!ListArrives(s) PROVE ListInv'
<1>1. /\ listCalls[s] \in CallRecord /\ listCalls[s].at = "read" /\ version \in Nat
      /\ listCalls[s].of \in Int /\ listCalls[s].snap \in Snaps /\ listShown \in Int
  BY DEF ListInv, CallsTyped, CallRecord, ListTyped, List!ListArrives
<1>2. /\ list' = listCalls[s].snap /\ listShown' = listCalls[s].of
      /\ missed' = (listCalls[s].of # version /\ (missed \/ listCalls[s].of < listShown))
      /\ List!Finish(s, TRUE) /\ UNCHANGED <<go, nextID, version, elsewhere, bulk>>
  BY DEF List!ListArrives, List!goVars
<1>3. /\ CallsTyped' /\ OneByBulk' /\ List!PendingHasCall'
      /\ \A t \in List!Slots : t # s => listCalls'[t] = listCalls[t]
      /\ listCalls'[s].at # "read"
      /\ pending' \in [List!Ids -> {"idle", "connecting", "testing", "disconnecting"}]
  BY <1>1, <1>2, FinishIs
<1>4. ListTyped'
  <2>1. missed' \in BOOLEAN
    BY <1>2
  <2> QED BY <1>1, <1>2, <1>3, <2>1 DEF ListInv, ListTyped
<1>5. listCalls[s].of <= version /\ (listCalls[s].of = version => listCalls[s].snap = go)
  BY <1>1 DEF ListInv, Versions
<1>6. Versions'
  BY <1>1, <1>2, <1>3, <1>5, VersionsStay
<1>7. NewestComes'
  <2>0. CASE elsewhere = version
    BY <1>2, <2>0 DEF NewestComes
  <2>1. CASE listCalls[s].of = version \/ missed \/ listCalls[s].of < listShown
    BY <1>1, <1>2, <2>1 DEF NewestComes
  <2>2. CASE ~(listCalls[s].of = version \/ missed \/ listCalls[s].of < listShown) /\ elsewhere # version
    <3>1. listShown # version /\ ~Brings(listCalls[s])
      BY <1>1, <1>5, <2>2 DEF Brings, ListInv, Versions
    <3>2. PICK t \in List!Slots : Brings(listCalls[t]) /\ t # s
      BY <2>2, <3>1 DEF ListInv, NewestComes
    <3> QED BY <1>2, <1>3, <3>2 DEF NewestComes, Brings
  <2> QED BY <2>0, <2>1, <2>2
<1> QED BY <1>3, <1>4, <1>6, <1>7 DEF ListInv

LEMMA ListFailsInv == ASSUME ListInv, NEW s \in List!Slots, List!ListFails(s) PROVE ListInv'
<1>1. /\ listCalls[s].at \in {"reading", "read"} /\ missed' = TRUE /\ List!Finish(s, FALSE)
      /\ UNCHANGED <<go, nextID, version, elsewhere, list, listShown, bulk>> /\ version \in Nat
  BY DEF ListInv, ListTyped, List!ListFails, List!goVars
<1>2. /\ CallsTyped' /\ OneByBulk' /\ List!PendingHasCall'
      /\ \A t \in List!Slots : t # s => listCalls'[t] = listCalls[t]
      /\ listCalls'[s].at # "read"
      /\ pending' \in [List!Ids -> {"idle", "connecting", "testing", "disconnecting"}]
  BY <1>1, FinishIs
<1>3. ListTyped'
  <2>1. missed' \in BOOLEAN
    BY <1>1
  <2> QED BY <1>1, <1>2, <2>1 DEF ListInv, ListTyped
<1>4. Versions'
  BY <1>1, <1>2, VersionsStay DEF ListInv, Versions
<1>5. NewestComes'
  BY <1>1 DEF NewestComes
<1> QED BY <1>2, <1>3, <1>4, <1>5 DEF ListInv

--------------------------------------------------------------------------------
(* A call begins, in the first slot at rest. *)
LEMMA BeginInv ==
    ASSUME ListInv, NEW s \in List!Slots, NEW op \in {"create"} \cup List!RowCalls, NEW id \in Nat,
           NEW by \in {"row", "bulk"}, op \in List!RowCalls => id \in List!Ids,
           List!Begin(s, op, id, by),
           UNCHANGED <<go, nextID, version, elsewhere, list, listShown, missed>>,
           UNCHANGED bulk \/ by = "bulk",
           by = "bulk" => /\ bulk.at = "running" /\ ~List!BulkWaits
                          /\ bulk'.at = "running" /\ bulk'.action = bulk.action
                          /\ bulk' \in [at : {"off", "asking", "running"},
                                        action : {"none"} \cup List!BulkActions,
                                        queue : SUBSET List!Ids, stop : BOOLEAN]
    PROVE  ListInv'
<1> DEFINE call == List!Sent(op, id, by)
<1>1. /\ call \in CallRecord /\ CallOfRow(call) /\ call.op = op /\ call.id = id /\ call.by = by
      /\ call.at = "sent"
  BY SentIs
<1>2. /\ listCalls[s] = List!Rest /\ listCalls[s].at = "rest" /\ listCalls[s].by = "row"
      /\ listCalls' = [listCalls EXCEPT ![s] = call]
      /\ pending' = IF op \in List!Dials THEN [pending EXCEPT ![id] = List!Label(op)] ELSE pending
      /\ listCalls \in [List!Slots -> CallRecord]
      /\ pending \in [List!Ids -> {"idle", "connecting", "testing", "disconnecting"}]
  BY RestTyped0 DEF List!Begin, ListInv, CallsTyped, ListTyped, CallOfRow
<1> HIDE DEF call
<1>3. /\ listCalls' \in [List!Slots -> CallRecord] /\ listCalls'[s] = call
      /\ \A t \in List!Slots : t # s => listCalls'[t] = listCalls[t]
  BY <1>1, <1>2
<1>4. CallsTyped'
  BY <1>1, <1>3 DEF ListInv, CallsTyped
<1>5. OneByBulk'
  <2>1. CASE by = "bulk"
    <3>1. \A t \in List!Slots : listCalls[t].by # "bulk"
      BY <2>1 DEF List!BulkWaits
    <3> QED BY <1>3, <2>1, <3>1 DEF OneByBulk
  <2>2. CASE by = "row"
    <3>1. \A t \in List!Slots : listCalls'[t].by = "bulk" => listCalls[t].by = "bulk"
      BY <1>1, <1>3, <2>2
    <3>2. UNCHANGED bulk
      BY <2>2
    <3> QED BY <3>1, <3>2 DEF ListInv, OneByBulk
  <2> QED BY <2>1, <2>2
<1>6. ListTyped'
  <2>1. List!Label(op) \in {"idle", "connecting", "testing", "disconnecting"}
    BY DEF List!Label
  <2>2. pending' \in [List!Ids -> {"idle", "connecting", "testing", "disconnecting"}]
    BY <1>2, <2>1
  <2>3. UNCHANGED bulk \/ bulk' \in [at : {"off", "asking", "running"},
                                     action : {"none"} \cup List!BulkActions,
                                     queue : SUBSET List!Ids, stop : BOOLEAN]
    OBVIOUS
  <2>4. bulk'.at # "off" => bulk'.action \in List!BulkActions
    BY DEF ListInv, ListTyped
  <2> QED BY <2>2, <2>3, <2>4 DEF ListInv, ListTyped
<1>7. Versions'
  BY <1>1, <1>3, VersionsStay DEF ListInv, Versions, ListTyped
<1>8. NewestComes'
  BY <1>2, <1>3 DEF ListInv, NewestComes, Brings
<1>9. List!PendingHasCall'
  <2> SUFFICES ASSUME NEW j \in List!Ids, pending'[j] # "idle"
               PROVE  \E t \in List!Slots : /\ listCalls'[t].id = j /\ listCalls'[t].op \in List!Dials
                                            /\ listCalls'[t].at \in {"sent", "answered"}
    BY DEF List!PendingHasCall
  <2>1. CASE op \in List!Dials /\ id = j
    BY <1>1, <1>3, <2>1
  <2>2. CASE ~(op \in List!Dials /\ id = j)
    <3>1. PICK t \in List!Slots : /\ listCalls[t].id = j /\ listCalls[t].op \in List!Dials
                                  /\ listCalls[t].at \in {"sent", "answered"}
      BY <1>2, <2>2 DEF ListInv, List!PendingHasCall
    <3> QED BY <1>2, <1>3, <3>1
  <2> QED BY <2>1, <2>2
<1> QED BY <1>4, <1>5, <1>6, <1>7, <1>8, <1>9 DEF ListInv

(* The action over several rows changes alone. *)
LEMMA BulkAloneInv ==
    ASSUME ListInv,
           UNCHANGED <<go, nextID, version, elsewhere, list, listShown, missed, pending, listCalls>>,
           bulk' \in [at : {"off", "asking", "running"}, action : {"none"} \cup List!BulkActions,
                      queue : SUBSET List!Ids, stop : BOOLEAN],
           bulk'.at # "off" => bulk'.action \in List!BulkActions,
           bulk'.at = "running" \/ bulk.at # "running" \/ ~List!BulkWaits
    PROVE  ListInv'
<1>1. CallsTyped' /\ Versions' /\ NewestComes' /\ List!PendingHasCall'
  BY DEF ListInv, CallsTyped, Versions, NewestComes, Brings, List!PendingHasCall
<1>2. ListTyped'
  BY DEF ListInv, ListTyped
<1>3. OneByBulk'
  BY DEF ListInv, OneByBulk, List!BulkWaits
<1> QED BY <1>1, <1>2, <1>3 DEF ListInv

LEMMA StartBulkInv ==
    ASSUME ListInv, NEW action \in List!BulkActions, NEW selection \in SUBSET List!Ids,
           List!StartBulk(action, selection)
    PROVE  ListInv'
<1> DEFINE queue == {id \in selection : List!Reached(action, id)}
<1>1. /\ UNCHANGED <<go, nextID, version, elsewhere, list, listShown, missed, pending, listCalls>>
      /\ bulk.at = "off"
      /\ bulk' = [at |-> IF action = "delete" THEN "asking" ELSE "running",
                  action |-> action, queue |-> queue, stop |-> FALSE]
  BY DEF List!StartBulk, List!goVars, List!listVars
<1>2. queue \in SUBSET List!Ids
  OBVIOUS
<1> HIDE DEF queue
<1> QED BY <1>1, <1>2, BulkAloneInv

LEMMA AnswerBulkInv == ASSUME ListInv, NEW yes \in BOOLEAN, List!AnswerBulk(yes) PROVE ListInv'
<1>1. /\ UNCHANGED <<go, nextID, version, elsewhere, list, listShown, missed, pending, listCalls>>
      /\ bulk.at = "asking" /\ bulk' = IF yes THEN [bulk EXCEPT !.at = "running"] ELSE List!NoBulk
      /\ bulk \in [at : {"off", "asking", "running"}, action : {"none"} \cup List!BulkActions,
                   queue : SUBSET List!Ids, stop : BOOLEAN]
      /\ bulk.action \in List!BulkActions
  BY DEF List!AnswerBulk, List!goVars, List!listVars, ListInv, ListTyped
<1>2. /\ bulk' \in [at : {"off", "asking", "running"}, action : {"none"} \cup List!BulkActions,
                    queue : SUBSET List!Ids, stop : BOOLEAN]
      /\ bulk'.at # "off" => bulk'.action \in List!BulkActions
  <2>1. CASE yes
    BY <1>1, <2>1
  <2>2. CASE ~yes
    BY <1>1, <2>2 DEF List!NoBulk
  <2> QED BY <2>1, <2>2
<1> QED BY <1>1, <1>2, BulkAloneInv

LEMMA StopBulkInv == ASSUME ListInv, List!StopBulk PROVE ListInv'
<1>1. /\ UNCHANGED <<go, nextID, version, elsewhere, list, listShown, missed, pending, listCalls>>
      /\ bulk.at = "running" /\ bulk' = [bulk EXCEPT !.stop = TRUE]
      /\ bulk \in [at : {"off", "asking", "running"}, action : {"none"} \cup List!BulkActions,
                   queue : SUBSET List!Ids, stop : BOOLEAN]
      /\ bulk.action \in List!BulkActions
  BY DEF List!StopBulk, List!goVars, List!listVars, ListInv, ListTyped
<1>2. /\ bulk' \in [at : {"off", "asking", "running"}, action : {"none"} \cup List!BulkActions,
                    queue : SUBSET List!Ids, stop : BOOLEAN]
      /\ bulk'.at = "running" /\ bulk'.action \in List!BulkActions
  BY <1>1
<1> QED BY <1>1, <1>2, BulkAloneInv

LEMMA BulkStepInv == ASSUME ListInv, NEW s \in List!Slots, List!BulkStep(s) PROVE ListInv'
<1>1. /\ bulk.at = "running" /\ ~List!BulkWaits
      /\ UNCHANGED <<go, nextID, version, elsewhere, list, listShown, missed>>
      /\ bulk \in [at : {"off", "asking", "running"}, action : {"none"} \cup List!BulkActions,
                   queue : SUBSET List!Ids, stop : BOOLEAN]
      /\ bulk.action \in List!BulkActions
  BY DEF List!BulkStep, List!goVars, List!listVars, ListInv, ListTyped
<1>2. CASE bulk' = List!NoBulk /\ UNCHANGED <<listCalls, pending>>
  BY <1>1, <1>2, BulkAloneInv DEF List!NoBulk
<1>3. ASSUME NEW id \in bulk.queue, bulk' = [bulk EXCEPT !.queue = @ \ {id}],
             IF List!Reached(bulk.action, id) THEN List!Begin(s, bulk.action, id, "bulk")
                                              ELSE UNCHANGED <<listCalls, pending>>
      PROVE  ListInv'
  <2>1. /\ bulk' \in [at : {"off", "asking", "running"}, action : {"none"} \cup List!BulkActions,
                      queue : SUBSET List!Ids, stop : BOOLEAN]
        /\ bulk'.at = "running" /\ bulk'.action = bulk.action
    BY <1>1, <1>3
  <2>2. id \in List!Ids /\ id \in Nat /\ bulk.action \in List!RowCalls
    BY <1>1, <1>3, ListBounds DEF List!Ids, List!RowCalls, List!Dials, List!BulkActions
  <2>3. CASE List!Begin(s, bulk.action, id, "bulk")
    BY <1>1, <2>1, <2>2, <2>3, BeginInv
  <2>4. CASE UNCHANGED <<listCalls, pending>>
    BY <1>1, <2>1, <2>4, BulkAloneInv
  <2> QED BY <1>3, <2>3, <2>4
<1> QED BY <1>2, <1>3 DEF List!BulkStep

LEMMA ListNextInv == ASSUME ListInv, List!Next PROVE ListInv'
<1> USE DEF List!goVars, List!listVars
<1>1. ASSUME NEW s \in List!Slots, List!Create(s) PROVE ListInv'
  <2>1. "create" \notin List!RowCalls /\ List!NoId \in Nat
    BY ListBounds DEF List!RowCalls, List!Dials
  <2>2. /\ List!Begin(s, "create", List!NoId, "row")
        /\ UNCHANGED <<go, nextID, version, elsewhere, list, listShown, missed, bulk>>
    BY <1>1 DEF List!Create
  <2> QED BY <2>1, <2>2, BeginInv
<1>2. ASSUME NEW s \in List!Slots, NEW id \in List!Ids, List!OpenConnectionTab(s, id) PROVE ListInv'
  <2>1. "connect" \in List!RowCalls /\ id \in Nat
    BY ListBounds DEF List!RowCalls, List!Dials, List!Ids
  <2>2. /\ List!Begin(s, "connect", id, "row")
        /\ UNCHANGED <<go, nextID, version, elsewhere, list, listShown, missed, bulk>>
    BY <1>2 DEF List!OpenConnectionTab
  <2> QED BY <2>1, <2>2, BeginInv
<1>3. ASSUME NEW s \in List!Slots, NEW id \in List!Ids, NEW op \in List!RowCalls,
             List!RowCall(s, op, id)
      PROVE  ListInv'
  <2>1. id \in Nat
    BY ListBounds DEF List!Ids
  <2>2. /\ List!Begin(s, op, id, "row")
        /\ UNCHANGED <<go, nextID, version, elsewhere, list, listShown, missed, bulk>>
    BY <1>3 DEF List!RowCall
  <2> QED BY <2>1, <2>2, BeginInv
<1> QED
  BY <1>1, <1>2, <1>3, AnswerInv, ReadListInv, ContinueInv, ListArrivesInv, ListFailsInv,
     BulkStepInv, StartBulkInv, AnswerBulkInv, StopBulkInv, ElsewhereInv DEF List!Next

LEMMA ListStays == ASSUME ListInv, UNCHANGED listVars PROVE ListInv'
<1>1. UNCHANGED <<go, nextID, version, elsewhere, list, listShown, missed, pending, listCalls, bulk>>
  BY DEF listVars
<1>2. bulk.at # "off" => bulk.action \in List!BulkActions
  BY DEF ListInv, ListTyped
<1> QED BY <1>1, <1>2, BulkAloneInv DEF ListInv, ListTyped

(* One row at a time. *)
LEMMA OneRow == ASSUME ListInv PROVE List!OneRowAtATime
<1> DEFINE own == {s \in List!Slots : listCalls[s].by = "bulk"}
<1>0. List!Cardinality(own) = Cardinality(own)
  BY Zenon DEF List!Cardinality, Cardinality
<1>1. \A s, t \in own : s = t
  BY DEF ListInv, OneByBulk
<1>2. CASE own = {}
  <2>1. Cardinality(own) = 0
    BY <1>2, FS_EmptySet
  <2> HIDE <1>2
  <2> QED BY <1>0, <2>1 DEF List!OneRowAtATime
<1>3. ASSUME NEW s \in own PROVE List!OneRowAtATime
  <2>1. own = {s} /\ bulk.at = "running"
    BY <1>1, <1>3 DEF ListInv, OneByBulk
  <2>2. Cardinality(own) = 1
    <3> HIDE DEF own
    <3> QED BY <2>1, FS_Singleton
  <2> QED BY <1>0, <2>1, <2>2 DEF List!OneRowAtATime
<1> QED BY <1>2, <1>3

--------------------------------------------------------------------------------
(* The connection form: what its drafts, their submissions and the profiles stored from
   them look like. *)
Mechanisms == {"none", "plain", "acl", "sasl-plain", "sasl-scram"} \cup Form!NatsMechanisms
Choices == {"-", "standalone", "sentinel", "cluster", "tcp", "tls", "ws", "wss"}
Fields == SUBSET Form!AllFields
Secrets == SUBSET Form!AllSecrets
SettingsSet ==
    [protocol : Form!Protocols, mechanism : Mechanisms, choice : Choices, filled : Fields]
Drafts == [protocol : Form!Protocols, mechanism : Mechanisms, choice : Choices, filled : Fields,
           typed : Secrets, stored : BOOLEAN, clear : BOOLEAN]
Modes == {"clear", "preserve", "replace"}
Submissions == [settings : SettingsSet, secrets : Secrets, mode : Modes]
Profiles == [settings : SettingsSet, secrets : Secrets]

(* The mechanisms a family's form has. *)
ShowsPlain == {"mqtt", "activemq", "ibmmq", "solace"}
OwnMechanism(protocol, mechanism) ==
    /\ protocol = "kafka" => mechanism \in {"none", "sasl-plain", "sasl-scram"}
    /\ protocol = "pulsar" => mechanism \in {"none", "token"}
    /\ protocol = "nats" => mechanism \in Form!NatsMechanisms
    /\ protocol \in ShowsPlain => mechanism \in {"none", "plain"}

GoodDraft(d) == d \in Drafts /\ OwnMechanism(d.protocol, d.mechanism)

(* The credentials a stored profile says it has. *)
StoredMechanism(protocol, mechanism) ==
    /\ OwnMechanism(protocol, mechanism)
    /\ protocol = "rocketmq" => mechanism \in {"none", "acl"}
    /\ protocol = "nsq" => mechanism = "none"
    /\ protocol \in {"rabbitmq", "redis", "sqs", "google-pubsub", "azure-servicebus", "kinesis"}
          => mechanism \in {"none", "plain"}

Anonymous(protocol, mechanism) ==
    mechanism = "none" /\ protocol \notin Form!KeepsEveryBlank

(* The fields that a family stores only beside others. *)
StoredFields(protocol, mechanism, choice, filled) ==
    /\ protocol \in {"kafka", "pulsar"} /\ "tls" \notin filled => filled \cap Form!TlsExtras = {}
    /\ protocol = "rabbitmq" =>
          "vhost" \in filled /\ ("tls" \in filled \/ "tlsSkipVerify" \notin filled)
    /\ protocol = "redis" =>
          /\ choice = "sentinel" \/ "masterName" \notin filled
          /\ choice # "cluster" \/ "db" \notin filled
          /\ "tls" \in filled \/ "tlsSkipVerify" \notin filled
    /\ protocol = "mqtt" =>
          /\ Form!Encrypted(choice) \/ filled \cap Form!TlsExtras = {}
          /\ Form!WebSocket(choice) \/ "wsPath" \notin filled
          /\ "v5" \in filled \/ "sessionExpiry" \notin filled
    /\ protocol = "nats" /\ mechanism # "none" =>
          /\ filled \cap (Form!NatsOwnFiles \ Form!NatsFiles(mechanism)) = {}
          /\ "tls" \in filled \/ mechanism = "mtls" \/ filled \cap Form!TlsExtras = {}

GoodProfile(p) ==
    /\ p \in Profiles
    /\ StoredMechanism(p.settings.protocol, p.settings.mechanism)
    /\ Anonymous(p.settings.protocol, p.settings.mechanism) => p.secrets = {}
    /\ StoredFields(p.settings.protocol, p.settings.mechanism, p.settings.choice,
                    p.settings.filled)

LEMMA FormTables ==
    /\ Form!NatsMechanisms = {"none", "plain", "token", "nkey", "creds", "mtls"}
    /\ Form!NatsOwnFiles \subseteq {"credsFile", "tlsCertFile", "tlsKeyFile"}
    /\ Form!NatsOwnSecrets \subseteq Form!AllSecrets
    /\ \A m : Form!NatsFiles(m) \subseteq Form!AllFields /\ Form!NatsSecrets(m) \subseteq Form!AllSecrets
    /\ Form!TlsExtras \subseteq Form!AllFields /\ Form!Login \subseteq Form!AllSecrets
    /\ Form!AwsKeys \subseteq Form!AllSecrets /\ Form!Messaging \subseteq Form!AllSecrets
    /\ Form!Rest \subseteq Form!AllSecrets
<1>1. \A m : /\ Form!NatsFiles(m) \subseteq {"credsFile", "tlsCertFile", "tlsKeyFile"}
             /\ Form!NatsSecrets(m) \subseteq {"username", "password", "token", "nkeySeed"}
  BY DEF Form!NatsFiles, Form!NatsSecrets, Form!Login
<1>2. /\ {"credsFile", "tlsCertFile", "tlsKeyFile"} \subseteq Form!AllFields
      /\ {"username", "password", "token", "nkeySeed"} \subseteq Form!AllSecrets
      /\ Form!TlsExtras \subseteq Form!AllFields /\ Form!Login \subseteq Form!AllSecrets
      /\ Form!AwsKeys \subseteq Form!AllSecrets /\ Form!Messaging \subseteq Form!AllSecrets
      /\ Form!Rest \subseteq Form!AllSecrets
  BY DEF Form!AllFields, Form!AllSecrets, Form!TlsExtras, Form!Login
<1>3. Form!NatsOwnFiles \subseteq {"credsFile", "tlsCertFile", "tlsKeyFile"}
  BY <1>1 DEF Form!NatsOwnFiles
<1>4. Form!NatsOwnSecrets \subseteq Form!AllSecrets
  BY <1>1, <1>2 DEF Form!NatsOwnSecrets
<1> QED BY <1>1, <1>2, <1>3, <1>4 DEF Form!NatsMechanisms

LEMMA DraftFields ==
    ASSUME NEW d \in Drafts
    PROVE  /\ d.protocol \in Form!Protocols /\ d.mechanism \in Mechanisms /\ d.choice \in Choices
           /\ d.filled \in Fields /\ d.typed \in Secrets
           /\ d.stored \in BOOLEAN /\ d.clear \in BOOLEAN
<1>1. d.stored \in BOOLEAN
  BY DEF Drafts
<1>2. d.clear \in BOOLEAN
  BY DEF Drafts
<1> QED BY <1>1, <1>2 DEF Drafts

(* What a draft hands out, and what the service makes of it. *)
LEMMA SubmitIs ==
    ASSUME NEW d \in Drafts, NEW mechanism \in Mechanisms, NEW dropped, NEW secrets,
           NEW mode \in Modes
    PROVE  LET s == Form!Submit(d, mechanism, dropped, secrets, mode)
           IN /\ s \in Submissions
              /\ s.settings.protocol = d.protocol /\ s.settings.mechanism = mechanism
              /\ s.settings.choice = d.choice /\ s.settings.filled = d.filled \ dropped
              /\ s.secrets = d.typed \cap secrets /\ s.mode = mode
<1>1. d.filled \ dropped \in Fields /\ d.typed \cap secrets \in Secrets
  BY DraftFields DEF Fields, Secrets
<1> QED BY <1>1, DraftFields DEF Form!Submit, Submissions, SettingsSet

LEMMA AppliedIs ==
    ASSUME NEW s \in Submissions, NEW current \in SUBSET Profiles
    PROVE  LET q == Form!applyCredentialsMode(current, s)
               clearing == current # {} /\ s.mode = "clear"
           IN /\ q \in Profiles
              /\ q.settings.protocol = s.settings.protocol
              /\ q.settings.choice = s.settings.choice
              /\ q.settings.filled = s.settings.filled
              /\ clearing => q.settings.mechanism = "none" /\ q.secrets = {}
              /\ ~clearing => /\ q.settings.mechanism = s.settings.mechanism
                              /\ s.mode # "preserve" => q.secrets = s.secrets
                              /\ s.mode = "preserve" =>
                                    q.secrets = s.secrets \cup UNION {p.secrets : p \in current}
<1> DEFINE clearing == current # {} /\ s.mode = "clear"
           added == IF s.mode = "preserve" THEN UNION {p.secrets : p \in current} ELSE {}
           settings == [s.settings EXCEPT !.mechanism = IF clearing THEN "none" ELSE @]
           secrets == IF clearing THEN {} ELSE s.secrets \cup added
<1>1. Form!applyCredentialsMode(current, s) = [settings |-> settings, secrets |-> secrets]
  BY DEF Form!applyCredentialsMode
<1>2. added \in Secrets /\ s.secrets \in Secrets /\ s.settings \in SettingsSet
  <2>1. \A p \in current : p.secrets \in Secrets
    BY DEF Profiles
  <2> QED BY <2>1 DEF Secrets, Submissions
<1>3. /\ settings \in SettingsSet /\ settings.protocol = s.settings.protocol
      /\ settings.choice = s.settings.choice /\ settings.filled = s.settings.filled
      /\ settings.mechanism = IF clearing THEN "none" ELSE s.settings.mechanism
  BY <1>2 DEF SettingsSet, Mechanisms
<1>4. secrets \in Secrets
  BY <1>2 DEF Secrets
<1>5. s.mode # "preserve" => added = {}
  OBVIOUS
<1>6. s.mode = "preserve" => added = UNION {p.secrets : p \in current}
  OBVIOUS
<1> HIDE DEF settings, added
<1> QED BY <1>1, <1>3, <1>4, <1>5, <1>6 DEF Profiles

(* A draft's submission as the service stores it. *)
LEMMA StoredIs ==
    ASSUME NEW d \in Drafts, NEW mechanism \in Mechanisms, NEW dropped, NEW secrets,
           NEW mode \in Modes, NEW current \in SUBSET Profiles
    PROVE  LET q == Form!applyCredentialsMode(current, Form!Submit(d, mechanism, dropped, secrets, mode))
               clearing == current # {} /\ mode = "clear"
           IN /\ q \in Profiles
              /\ q.settings.protocol = d.protocol /\ q.settings.choice = d.choice
              /\ q.settings.filled = d.filled \ dropped
              /\ q.settings.mechanism = IF clearing THEN "none" ELSE mechanism
              /\ clearing => q.secrets = {}
              /\ ~clearing /\ mode # "preserve" => q.secrets = d.typed \cap secrets
              /\ mode = "preserve" =>
                    q.secrets = (d.typed \cap secrets) \cup UNION {p.secrets : p \in current}
<1> DEFINE s == Form!Submit(d, mechanism, dropped, secrets, mode)
<1>1. /\ s \in Submissions
      /\ s.settings.protocol = d.protocol /\ s.settings.mechanism = mechanism
      /\ s.settings.choice = d.choice /\ s.settings.filled = d.filled \ dropped
      /\ s.secrets = d.typed \cap secrets /\ s.mode = mode
  BY SubmitIs
<1> HIDE DEF s
<1> DEFINE q == Form!applyCredentialsMode(current, s)
           clearing == current # {} /\ s.mode = "clear"
<1>2. /\ q \in Profiles
      /\ q.settings.protocol = s.settings.protocol
      /\ q.settings.choice = s.settings.choice
      /\ q.settings.filled = s.settings.filled
      /\ clearing => q.settings.mechanism = "none" /\ q.secrets = {}
      /\ ~clearing => /\ q.settings.mechanism = s.settings.mechanism
                      /\ s.mode # "preserve" => q.secrets = s.secrets
                      /\ s.mode = "preserve" =>
                            q.secrets = s.secrets \cup UNION {p.secrets : p \in current}
  BY <1>1, AppliedIs
<1> HIDE DEF q
<1>3. /\ q \in Profiles
      /\ q.settings.protocol = d.protocol /\ q.settings.choice = d.choice
      /\ q.settings.filled = d.filled \ dropped
      /\ q.settings.mechanism = IF current # {} /\ mode = "clear" THEN "none" ELSE mechanism
      /\ current # {} /\ mode = "clear" => q.secrets = {}
      /\ ~(current # {} /\ mode = "clear") /\ mode # "preserve" => q.secrets = d.typed \cap secrets
      /\ mode = "preserve" =>
            q.secrets = (d.typed \cap secrets) \cup UNION {p.secrets : p \in current}
  BY <1>1, <1>2
<1> QED BY <1>3 DEF q, s

LEMMA ModesAre ==
    ASSUME NEW d, NEW typed, NEW keep
    PROVE  Form!PreserveBlank(d) \in Modes /\ Form!ReplaceOnce(d, typed, keep) \in Modes
BY DEF Form!PreserveBlank, Form!ReplaceOnce, Modes

(* A submission the service makes a good profile of, whatever is stored. *)
Becomes(s) ==
    /\ s \in Submissions
    /\ \A current \in SUBSET Profiles : GoodProfile(Form!applyCredentialsMode(current, s))

LEMMA SubmitBecomes ==
    ASSUME NEW d \in Drafts, NEW mechanism \in Mechanisms, NEW dropped, NEW secrets,
           NEW mode \in Modes,
           StoredMechanism(d.protocol, mechanism),
           Anonymous(d.protocol, mechanism) => d.typed \cap secrets = {} /\ mode # "preserve",
           StoredFields(d.protocol, mechanism, d.choice, d.filled \ dropped)
    PROVE  Becomes(Form!Submit(d, mechanism, dropped, secrets, mode))
<1> DEFINE s == Form!Submit(d, mechanism, dropped, secrets, mode)
<1>1. s \in Submissions
  BY SubmitIs
<1>2. ASSUME NEW current \in SUBSET Profiles PROVE GoodProfile(Form!applyCredentialsMode(current, s))
  <2> DEFINE q == Form!applyCredentialsMode(current, s)
             clearing == current # {} /\ mode = "clear"
  <2>1. /\ q \in Profiles
        /\ q.settings.protocol = d.protocol /\ q.settings.choice = d.choice
        /\ q.settings.filled = d.filled \ dropped
        /\ q.settings.mechanism = IF clearing THEN "none" ELSE mechanism
        /\ clearing => q.secrets = {}
        /\ ~clearing /\ mode # "preserve" => q.secrets = d.typed \cap secrets
    BY StoredIs
  <2> HIDE DEF q, s
  <2>2. ASSUME clearing PROVE GoodProfile(q)
    <3>1. q.settings.mechanism = "none" /\ q.secrets = {}
      BY <2>1, <2>2
    <3>2. StoredMechanism(d.protocol, "none")
      BY DEF StoredMechanism, OwnMechanism, Form!NatsMechanisms
    <3>3. StoredFields(d.protocol, "none", d.choice, d.filled \ dropped)
      BY DEF StoredFields
    <3>4. /\ StoredMechanism(q.settings.protocol, q.settings.mechanism)
          /\ StoredFields(q.settings.protocol, q.settings.mechanism, q.settings.choice,
                          q.settings.filled)
      BY Zenon, <2>1, <3>1, <3>2, <3>3
    <3> QED BY <2>1, <3>1, <3>4 DEF GoodProfile
  <2>3. ASSUME ~clearing PROVE GoodProfile(q)
    <3>1. q.settings.mechanism = mechanism
      BY <2>1, <2>3
    <3>2. /\ StoredMechanism(q.settings.protocol, q.settings.mechanism)
          /\ StoredFields(q.settings.protocol, q.settings.mechanism, q.settings.choice,
                          q.settings.filled)
      BY Zenon, <2>1, <3>1
    <3>3. Anonymous(q.settings.protocol, q.settings.mechanism) => q.secrets = {}
      <4>1. Anonymous(d.protocol, mechanism) <=> Anonymous(q.settings.protocol, q.settings.mechanism)
        BY Zenon, <2>1, <3>1
      <4> QED BY <2>1, <2>3, <4>1
    <3> QED BY <2>1, <3>2, <3>3 DEF GoodProfile
  <2> QED BY <2>2, <2>3 DEF q, s
<1> QED BY <1>1, <1>2 DEF Becomes, s

LEMMA RabbitMQBecomes ==
    ASSUME NEW d, GoodDraft(d), d.protocol = "rabbitmq" PROVE Becomes(Form!rabbitMQSubmission(d))
<1> DEFINE e == [d EXCEPT !.filled = @ \cup {"vhost"}]
           mode == Form!ReplaceOnce(d, d.typed, Form!keepStored(d))
           dropped == Form!Unless("tls" \in d.filled, {"tlsSkipVerify"})
<1>1. d \in Drafts /\ mode \in Modes /\ "plain" \in Mechanisms
  BY ModesAre DEF GoodDraft, Mechanisms
<1>2. d.filled \cup {"vhost"} \in Fields
  BY <1>1, DraftFields DEF Fields, Form!AllFields
<1>3. /\ e \in Drafts /\ e.protocol = "rabbitmq" /\ e.filled = d.filled \cup {"vhost"}
      /\ e.typed = d.typed
  BY <1>1, <1>2 DEF Drafts
<1>4. StoredFields("rabbitmq", "plain", e.choice, e.filled \ dropped)
  BY <1>3 DEF Form!Unless, StoredFields
<1>5. StoredMechanism("rabbitmq", "plain") /\ ~Anonymous("rabbitmq", "plain")
  BY DEF StoredMechanism, OwnMechanism, ShowsPlain, Anonymous, Form!KeepsEveryBlank
<1> HIDE DEF e, mode, dropped
<1>6. Becomes(Form!Submit(e, "plain", dropped, Form!Login, mode))
  BY <1>1, <1>3, <1>4, <1>5, SubmitBecomes
<1> QED BY <1>6 DEF Form!rabbitMQSubmission, e, mode, dropped

(* A family whose form has its mechanism. *)
LEMMA KafkaBecomes ==
    ASSUME NEW d, GoodDraft(d), d.protocol = "kafka" PROVE Becomes(Form!kafkaSubmission(d))
<1> DEFINE none == ~(d.mechanism # "none")
           mode == IF none THEN "clear" ELSE Form!ReplaceOnce(d, d.typed, Form!keepStored(d))
           dropped == Form!Unless("tls" \in d.filled, Form!TlsExtras)
           secrets == Form!Unless(none, Form!Login)
<1>1. d \in Drafts /\ d.mechanism \in Mechanisms /\ mode \in Modes
  BY ModesAre, DraftFields DEF GoodDraft, Modes
<1>2. StoredMechanism(d.protocol, d.mechanism)
  BY DEF GoodDraft, StoredMechanism
<1>3. Anonymous(d.protocol, d.mechanism) => d.typed \cap secrets = {} /\ mode # "preserve"
  BY DEF Anonymous, Form!KeepsEveryBlank, Form!Unless
<1>4. StoredFields(d.protocol, d.mechanism, d.choice, d.filled \ dropped)
  BY DEF Form!Unless, StoredFields
<1> HIDE DEF mode, dropped, secrets
<1>5. Becomes(Form!Submit(d, d.mechanism, dropped, secrets, mode))
  BY <1>1, <1>2, <1>3, <1>4, SubmitBecomes
<1> QED BY <1>5 DEF Form!kafkaSubmission, mode, dropped, secrets

LEMMA PulsarBecomes ==
    ASSUME NEW d, GoodDraft(d), d.protocol = "pulsar" PROVE Becomes(Form!pulsarSubmission(d))
<1> DEFINE none == ~(d.mechanism # "none")
           mode == IF none THEN "clear" ELSE Form!ReplaceOnce(d, d.typed, Form!keepStored(d))
           dropped == Form!Unless("tls" \in d.filled, Form!TlsExtras)
           secrets == Form!Unless(none, {"token"})
<1>1. d \in Drafts /\ d.mechanism \in Mechanisms /\ mode \in Modes
  BY ModesAre, DraftFields DEF GoodDraft, Modes
<1>2. StoredMechanism(d.protocol, d.mechanism)
  BY DEF GoodDraft, StoredMechanism
<1>3. Anonymous(d.protocol, d.mechanism) => d.typed \cap secrets = {} /\ mode # "preserve"
  BY DEF Anonymous, Form!KeepsEveryBlank, Form!Unless
<1>4. StoredFields(d.protocol, d.mechanism, d.choice, d.filled \ dropped)
  BY DEF Form!Unless, StoredFields
<1> HIDE DEF mode, dropped, secrets
<1>5. Becomes(Form!Submit(d, d.mechanism, dropped, secrets, mode))
  BY <1>1, <1>2, <1>3, <1>4, SubmitBecomes
<1> QED BY <1>5 DEF Form!pulsarSubmission, mode, dropped, secrets

(* Families whose form has its mechanism, and secrets beside the ones of its login. *)
LEMMA MqttBecomes ==
    ASSUME NEW d, GoodDraft(d), d.protocol = "mqtt" PROVE Becomes(Form!mqttSubmission(d))
<1> DEFINE mode == Form!PreserveBlank(d)
           dropped == Form!Unless(Form!WebSocket(d.choice), {"wsPath"})
                        \cup Form!Unless(Form!Encrypted(d.choice), Form!TlsExtras)
                        \cup Form!Unless("v5" \in d.filled, {"sessionExpiry"})
           secrets == Form!Unless(d.mechanism = "none", Form!Login)
                        \cup Form!Unless("managementUrl" \notin d.filled,
                                      {"managementKey", "managementSecret"})
<1>1. d \in Drafts /\ d.mechanism \in Mechanisms /\ mode \in Modes
  BY ModesAre, DraftFields DEF GoodDraft
<1>2. StoredMechanism(d.protocol, d.mechanism) /\ ~Anonymous(d.protocol, d.mechanism)
  BY DEF GoodDraft, StoredMechanism, Anonymous, Form!KeepsEveryBlank
<1>3. StoredFields(d.protocol, d.mechanism, d.choice, d.filled \ dropped)
  BY DEF Form!Unless, Form!TlsExtras, StoredFields
<1> HIDE DEF mode, dropped, secrets
<1>4. Becomes(Form!Submit(d, d.mechanism, dropped, secrets, mode))
  BY <1>1, <1>2, <1>3, SubmitBecomes
<1> QED BY <1>4 DEF Form!mqttSubmission, mode, dropped, secrets

LEMMA NatsBecomes ==
    ASSUME NEW d, GoodDraft(d), d.protocol = "nats" PROVE Becomes(Form!natsSubmission(d))
<1> DEFINE mode == Form!PreserveBlank(d)
           dropped == Form!Unless("tls" \in d.filled \/ d.mechanism = "mtls", Form!TlsExtras)
                        \cup (Form!NatsOwnFiles \ Form!NatsFiles(d.mechanism))
           secrets == Form!NatsSecrets(d.mechanism) \cup {"systemUser", "systemPassword"}
<1>1. d \in Drafts /\ d.mechanism \in Mechanisms /\ mode \in Modes
  BY ModesAre, DraftFields DEF GoodDraft
<1>2. StoredMechanism(d.protocol, d.mechanism) /\ ~Anonymous(d.protocol, d.mechanism)
  BY DEF GoodDraft, StoredMechanism, Anonymous, Form!KeepsEveryBlank
<1>3. StoredFields(d.protocol, d.mechanism, d.choice, d.filled \ dropped)
  <2>1. "tls" \notin Form!NatsOwnFiles /\ "tls" \notin Form!TlsExtras
    BY FormTables DEF Form!TlsExtras
  <2> QED BY <2>1 DEF Form!Unless, StoredFields
<1> HIDE DEF mode, dropped, secrets
<1>4. Becomes(Form!Submit(d, d.mechanism, dropped, secrets, mode))
  BY <1>1, <1>2, <1>3, SubmitBecomes
<1> QED BY <1>4 DEF Form!natsSubmission, mode, dropped, secrets

LEMMA ActiveMQBecomes ==
    ASSUME NEW d, GoodDraft(d), d.protocol = "activemq" PROVE Becomes(Form!activeMQSubmission(d))
<1> DEFINE mode == Form!PreserveBlank(d)
           dropped == {}
           secrets == Form!Unless(d.mechanism # "plain", Form!Login)
                        \cup Form!Unless("amqpUrl" \notin d.filled,
                                      {"amqpUsername", "amqpPassword"})
<1>1. d \in Drafts /\ d.mechanism \in Mechanisms /\ mode \in Modes
  BY ModesAre, DraftFields DEF GoodDraft
<1>2. StoredMechanism(d.protocol, d.mechanism) /\ ~Anonymous(d.protocol, d.mechanism)
  BY DEF GoodDraft, StoredMechanism, Anonymous, Form!KeepsEveryBlank
<1>3. StoredFields(d.protocol, d.mechanism, d.choice, d.filled \ dropped)
  BY DEF StoredFields
<1> HIDE DEF mode, dropped, secrets
<1>4. Becomes(Form!Submit(d, d.mechanism, dropped, secrets, mode))
  BY <1>1, <1>2, <1>3, SubmitBecomes
<1> QED BY <1>4 DEF Form!activeMQSubmission, mode, dropped, secrets

LEMMA IbmMqBecomes ==
    ASSUME NEW d, GoodDraft(d), d.protocol = "ibmmq" PROVE Becomes(Form!ibmMqSubmission(d))
<1> DEFINE mode == Form!PreserveBlank(d)
           dropped == {}
           secrets == Form!Unless(d.mechanism # "plain", Form!Login \cup Form!Messaging)
<1>1. d \in Drafts /\ d.mechanism \in Mechanisms /\ mode \in Modes
  BY ModesAre, DraftFields DEF GoodDraft
<1>2. StoredMechanism(d.protocol, d.mechanism) /\ ~Anonymous(d.protocol, d.mechanism)
  BY DEF GoodDraft, StoredMechanism, Anonymous, Form!KeepsEveryBlank
<1>3. StoredFields(d.protocol, d.mechanism, d.choice, d.filled \ dropped)
  BY DEF StoredFields
<1> HIDE DEF mode, dropped, secrets
<1>4. Becomes(Form!Submit(d, d.mechanism, dropped, secrets, mode))
  BY <1>1, <1>2, <1>3, SubmitBecomes
<1> QED BY <1>4 DEF Form!ibmMqSubmission, mode, dropped, secrets

LEMMA SolaceBecomes ==
    ASSUME NEW d, GoodDraft(d), d.protocol = "solace" PROVE Becomes(Form!solaceSubmission(d))
<1> DEFINE mode == Form!PreserveBlank(d)
           dropped == {}
           secrets == Form!Rest \cup Form!Unless(d.mechanism # "plain", Form!Login)
<1>1. d \in Drafts /\ d.mechanism \in Mechanisms /\ mode \in Modes
  BY ModesAre, DraftFields DEF GoodDraft
<1>2. StoredMechanism(d.protocol, d.mechanism) /\ ~Anonymous(d.protocol, d.mechanism)
  BY DEF GoodDraft, StoredMechanism, Anonymous, Form!KeepsEveryBlank
<1>3. StoredFields(d.protocol, d.mechanism, d.choice, d.filled \ dropped)
  BY DEF StoredFields
<1> HIDE DEF mode, dropped, secrets
<1>4. Becomes(Form!Submit(d, d.mechanism, dropped, secrets, mode))
  BY <1>1, <1>2, <1>3, SubmitBecomes
<1> QED BY <1>4 DEF Form!solaceSubmission, mode, dropped, secrets

(* Families that authenticate when there is something to send. *)
LEMMA RocketMQBecomes ==
    ASSUME NEW d, GoodDraft(d), d.protocol = "rocketmq" PROVE Becomes(Form!rocketMQSubmission(d))
<1> DEFINE mode == Form!PreserveBlank(d)
           mechanism == Form!Given(d, "acl")
           dropped == {}
<1>1. d \in Drafts /\ mode \in Modes /\ mechanism \in Mechanisms /\ mechanism \in {"none", "acl"}
  BY ModesAre DEF GoodDraft, Form!Given, Mechanisms
<1>2. StoredMechanism(d.protocol, mechanism)
  BY <1>1 DEF StoredMechanism, OwnMechanism, ShowsPlain
<1>3. Anonymous(d.protocol, mechanism) => d.typed \cap {"accessKey", "secretKey"} = {} /\ mode # "preserve"
  BY DEF Anonymous, Form!KeepsEveryBlank, Form!Given, Form!PreserveBlank
<1>4. StoredFields(d.protocol, mechanism, d.choice, d.filled \ dropped)
  BY DEF Form!Unless, StoredFields
<1> HIDE DEF mode, dropped, mechanism
<1>5. Becomes(Form!Submit(d, mechanism, dropped, {"accessKey", "secretKey"}, mode))
  BY <1>1, <1>2, <1>3, <1>4, SubmitBecomes
<1> QED BY <1>5 DEF Form!rocketMQSubmission, mode, dropped, mechanism

LEMMA SqsBecomes ==
    ASSUME NEW d, GoodDraft(d), d.protocol = "sqs" PROVE Becomes(Form!sqsSubmission(d))
<1> DEFINE mode == Form!PreserveBlank(d)
           mechanism == Form!Given(d, "plain")
           dropped == {}
<1>1. d \in Drafts /\ mode \in Modes /\ mechanism \in Mechanisms /\ mechanism \in {"none", "plain"}
  BY ModesAre DEF GoodDraft, Form!Given, Mechanisms
<1>2. StoredMechanism(d.protocol, mechanism)
  BY <1>1 DEF StoredMechanism, OwnMechanism, ShowsPlain
<1>3. Anonymous(d.protocol, mechanism) => d.typed \cap Form!AwsKeys = {} /\ mode # "preserve"
  BY DEF Anonymous, Form!KeepsEveryBlank, Form!Given, Form!PreserveBlank
<1>4. StoredFields(d.protocol, mechanism, d.choice, d.filled \ dropped)
  BY DEF Form!Unless, StoredFields
<1> HIDE DEF mode, dropped, mechanism
<1>5. Becomes(Form!Submit(d, mechanism, dropped, Form!AwsKeys, mode))
  BY <1>1, <1>2, <1>3, <1>4, SubmitBecomes
<1> QED BY <1>5 DEF Form!sqsSubmission, mode, dropped, mechanism

LEMMA GooglePubSubBecomes ==
    ASSUME NEW d, GoodDraft(d), d.protocol = "google-pubsub" PROVE Becomes(Form!googlePubSubSubmission(d))
<1> DEFINE mode == Form!PreserveBlank(d)
           mechanism == Form!Given(d, "plain")
           dropped == {}
<1>1. d \in Drafts /\ mode \in Modes /\ mechanism \in Mechanisms /\ mechanism \in {"none", "plain"}
  BY ModesAre DEF GoodDraft, Form!Given, Mechanisms
<1>2. StoredMechanism(d.protocol, mechanism)
  BY <1>1 DEF StoredMechanism, OwnMechanism, ShowsPlain
<1>3. Anonymous(d.protocol, mechanism) => d.typed \cap {"credentialsJson"} = {} /\ mode # "preserve"
  BY DEF Anonymous, Form!KeepsEveryBlank, Form!Given, Form!PreserveBlank
<1>4. StoredFields(d.protocol, mechanism, d.choice, d.filled \ dropped)
  BY DEF Form!Unless, StoredFields
<1> HIDE DEF mode, dropped, mechanism
<1>5. Becomes(Form!Submit(d, mechanism, dropped, {"credentialsJson"}, mode))
  BY <1>1, <1>2, <1>3, <1>4, SubmitBecomes
<1> QED BY <1>5 DEF Form!googlePubSubSubmission, mode, dropped, mechanism

LEMMA AzureServiceBusBecomes ==
    ASSUME NEW d, GoodDraft(d), d.protocol = "azure-servicebus" PROVE Becomes(Form!azureServiceBusSubmission(d))
<1> DEFINE mode == Form!PreserveBlank(d)
           mechanism == Form!Given(d, "plain")
           dropped == {}
<1>1. d \in Drafts /\ mode \in Modes /\ mechanism \in Mechanisms /\ mechanism \in {"none", "plain"}
  BY ModesAre DEF GoodDraft, Form!Given, Mechanisms
<1>2. StoredMechanism(d.protocol, mechanism)
  BY <1>1 DEF StoredMechanism, OwnMechanism, ShowsPlain
<1>3. Anonymous(d.protocol, mechanism) => d.typed \cap {"sharedAccessKey", "connectionString"} = {} /\ mode # "preserve"
  BY DEF Anonymous, Form!KeepsEveryBlank, Form!Given, Form!PreserveBlank
<1>4. StoredFields(d.protocol, mechanism, d.choice, d.filled \ dropped)
  BY DEF Form!Unless, StoredFields
<1> HIDE DEF mode, dropped, mechanism
<1>5. Becomes(Form!Submit(d, mechanism, dropped, {"sharedAccessKey", "connectionString"}, mode))
  BY <1>1, <1>2, <1>3, <1>4, SubmitBecomes
<1> QED BY <1>5 DEF Form!azureServiceBusSubmission, mode, dropped, mechanism

LEMMA KinesisBecomes ==
    ASSUME NEW d, GoodDraft(d), d.protocol = "kinesis" PROVE Becomes(Form!kinesisSubmission(d))
<1> DEFINE mode == Form!PreserveBlank(d)
           mechanism == Form!Given(d, "plain")
           dropped == {}
<1>1. d \in Drafts /\ mode \in Modes /\ mechanism \in Mechanisms /\ mechanism \in {"none", "plain"}
  BY ModesAre DEF GoodDraft, Form!Given, Mechanisms
<1>2. StoredMechanism(d.protocol, mechanism)
  BY <1>1 DEF StoredMechanism, OwnMechanism, ShowsPlain
<1>3. Anonymous(d.protocol, mechanism) => d.typed \cap Form!AwsKeys = {} /\ mode # "preserve"
  BY DEF Anonymous, Form!KeepsEveryBlank, Form!Given, Form!PreserveBlank
<1>4. StoredFields(d.protocol, mechanism, d.choice, d.filled \ dropped)
  BY DEF Form!Unless, StoredFields
<1> HIDE DEF mode, dropped, mechanism
<1>5. Becomes(Form!Submit(d, mechanism, dropped, Form!AwsKeys, mode))
  BY <1>1, <1>2, <1>3, <1>4, SubmitBecomes
<1> QED BY <1>5 DEF Form!kinesisSubmission, mode, dropped, mechanism

LEMMA RedisBecomes ==
    ASSUME NEW d, GoodDraft(d), d.protocol = "redis" PROVE Becomes(Form!redisSubmission(d))
<1> DEFINE mode == Form!ReplaceOnce(d, d.typed, Form!keepStored(d))
           mechanism == Form!Given(d, "plain")
           dropped == Form!Unless(d.choice = "sentinel", {"masterName"})
                        \cup Form!Unless(d.choice # "cluster", {"db"})
                        \cup Form!Unless("tls" \in d.filled, {"tlsSkipVerify"})
<1>1. d \in Drafts /\ mode \in Modes /\ mechanism \in Mechanisms /\ mechanism \in {"none", "plain"}
  BY ModesAre DEF GoodDraft, Form!Given, Mechanisms
<1>2. StoredMechanism(d.protocol, mechanism)
  BY <1>1 DEF StoredMechanism, OwnMechanism, ShowsPlain
<1>3. Anonymous(d.protocol, mechanism) => d.typed \cap Form!Login = {} /\ mode # "preserve"
  BY DEF Anonymous, Form!KeepsEveryBlank, Form!Given, Form!ReplaceOnce
<1>4. StoredFields(d.protocol, mechanism, d.choice, d.filled \ dropped)
  BY DEF Form!Unless, StoredFields
<1> HIDE DEF mode, dropped, mechanism
<1>5. Becomes(Form!Submit(d, mechanism, dropped, Form!Login, mode))
  BY <1>1, <1>2, <1>3, <1>4, SubmitBecomes
<1> QED BY <1>5 DEF Form!redisSubmission, mode, dropped, mechanism

LEMMA NsqBecomes ==
    ASSUME NEW d, GoodDraft(d), d.protocol = "nsq" PROVE Becomes(Form!nsqSubmission(d))
<1>1. d \in Drafts /\ "replace" \in Modes /\ "none" \in Mechanisms
  BY DEF GoodDraft, Modes, Mechanisms
<1>2. StoredMechanism(d.protocol, "none") /\ StoredFields(d.protocol, "none", d.choice, d.filled \ {})
  BY DEF StoredMechanism, OwnMechanism, ShowsPlain, StoredFields
<1>3. Becomes(Form!Submit(d, "none", {}, {}, "replace"))
  BY <1>1, <1>2, SubmitBecomes
<1> QED BY <1>3 DEF Form!nsqSubmission

(* Whatever the form collects is stored as a good profile. *)
LEMMA SubmissionBecomes == ASSUME NEW d, GoodDraft(d) PROVE Becomes(Form!toSubmission(d))
<1>1. d.protocol \in Form!Protocols
  BY DraftFields DEF GoodDraft
<1>2. CASE d.protocol = "rabbitmq"
  BY <1>2, RabbitMQBecomes DEF Form!toSubmission
<1>3. CASE d.protocol = "kafka"
  BY <1>3, KafkaBecomes DEF Form!toSubmission
<1>4. CASE d.protocol = "pulsar"
  BY <1>4, PulsarBecomes DEF Form!toSubmission
<1>5. CASE d.protocol = "redis"
  BY <1>5, RedisBecomes DEF Form!toSubmission
<1>6. CASE d.protocol = "mqtt"
  BY <1>6, MqttBecomes DEF Form!toSubmission
<1>7. CASE d.protocol = "nats"
  BY <1>7, NatsBecomes DEF Form!toSubmission
<1>8. CASE d.protocol = "activemq"
  BY <1>8, ActiveMQBecomes DEF Form!toSubmission
<1>9. CASE d.protocol = "nsq"
  BY <1>9, NsqBecomes DEF Form!toSubmission
<1>10. CASE d.protocol = "sqs"
  BY <1>10, SqsBecomes DEF Form!toSubmission
<1>11. CASE d.protocol = "google-pubsub"
  BY <1>11, GooglePubSubBecomes DEF Form!toSubmission
<1>12. CASE d.protocol = "azure-servicebus"
  BY <1>12, AzureServiceBusBecomes DEF Form!toSubmission
<1>13. CASE d.protocol = "kinesis"
  BY <1>13, KinesisBecomes DEF Form!toSubmission
<1>14. CASE d.protocol = "ibmmq"
  BY <1>14, IbmMqBecomes DEF Form!toSubmission
<1>15. CASE d.protocol = "solace"
  BY <1>15, SolaceBecomes DEF Form!toSubmission
<1>16. CASE d.protocol = "rocketmq"
  BY <1>16, RocketMQBecomes DEF Form!toSubmission
<1> QED
  BY <1>1, <1>2, <1>3, <1>4, <1>5, <1>6, <1>7, <1>8, <1>9, <1>10, <1>11, <1>12, <1>13, <1>14, <1>15, <1>16 DEF Form!Protocols

(* One event in a form leads from a good draft to good drafts of its family. *)
Sound(d, drafts) == \A e \in drafts : GoodDraft(e) /\ e.protocol = d.protocol

LEMMA DraftWith ==
    ASSUME NEW d, GoodDraft(d), NEW m \in Mechanisms, OwnMechanism(d.protocol, m),
           NEW choice \in Choices, NEW filled \in Fields, NEW typed \in Secrets
    PROVE  /\ Sound(d, {[d EXCEPT !.filled = filled]})
           /\ Sound(d, {[d EXCEPT !.typed = typed]})
           /\ Sound(d, {[d EXCEPT !.clear = TRUE]})
           /\ Sound(d, {[d EXCEPT !.mechanism = m, !.typed = typed]})
           /\ Sound(d, {[d EXCEPT !.mechanism = m, !.typed = typed, !.filled = filled]})
           /\ Sound(d, {[d EXCEPT !.choice = choice, !.filled = filled]})
           /\ Sound(d, {[d EXCEPT !.filled = filled, !.typed = typed]})
           /\ Sound(d, {[d EXCEPT !.mechanism = m, !.choice = choice]})
<1> DEFINE drafts == {[d EXCEPT !.filled = filled], [d EXCEPT !.typed = typed],
                      [d EXCEPT !.clear = TRUE],
                      [d EXCEPT !.mechanism = m, !.typed = typed],
                      [d EXCEPT !.mechanism = m, !.typed = typed, !.filled = filled],
                      [d EXCEPT !.choice = choice, !.filled = filled],
                      [d EXCEPT !.filled = filled, !.typed = typed],
                      [d EXCEPT !.mechanism = m, !.choice = choice]}
<1> SUFFICES ASSUME NEW e \in drafts PROVE GoodDraft(e) /\ e.protocol = d.protocol
  BY DEF Sound
<1>1. d \in Drafts /\ OwnMechanism(d.protocol, d.mechanism)
  BY DEF GoodDraft
<1>2. e \in Drafts
  BY <1>1 DEF Drafts
<1>3. e.protocol = d.protocol /\ (e.mechanism = d.mechanism \/ e.mechanism = m)
  BY <1>1 DEF Drafts
<1>4. OwnMechanism(e.protocol, e.mechanism)
  BY Zenon, <1>1, <1>3
<1> QED BY <1>2, <1>3, <1>4 DEF GoodDraft

LEMMA TypingSound ==
    ASSUME NEW d, GoodDraft(d), NEW fields \in Fields PROVE Sound(d, Form!Typing(d, fields))
<1> SUFFICES ASSUME NEW f \in fields
             PROVE  Sound(d, {[d EXCEPT !.filled = Form!Toggled(d.filled, f)]})
  BY DEF Form!Typing, Sound, GoodDraft, Drafts
<1>1. Form!Toggled(d.filled, f) \in Fields
  BY DraftFields DEF GoodDraft, Form!Toggled, Fields
<1>2. d.mechanism \in Mechanisms /\ OwnMechanism(d.protocol, d.mechanism) /\ d.choice \in Choices /\ d.typed \in Secrets
  BY DraftFields DEF GoodDraft
<1> QED BY <1>1, <1>2, DraftWith

LEMMA SecretsSound ==
    ASSUME NEW d, GoodDraft(d), NEW secrets \in Secrets PROVE Sound(d, Form!Secrets(d, secrets))
<1> SUFFICES ASSUME NEW s \in secrets
             PROVE  Sound(d, {[d EXCEPT !.typed = Form!Toggled(d.typed, s)]})
  BY DEF Form!Secrets, Sound, GoodDraft, Drafts
<1>1. Form!Toggled(d.typed, s) \in Secrets
  BY DraftFields DEF GoodDraft, Form!Toggled, Secrets
<1>2. d.mechanism \in Mechanisms /\ OwnMechanism(d.protocol, d.mechanism) /\ d.choice \in Choices /\ d.filled \in Fields
  BY DraftFields DEF GoodDraft
<1> QED BY <1>1, <1>2, DraftWith

LEMMA ClearSound == ASSUME NEW d, GoodDraft(d) PROVE Sound(d, Form!ClearLink(d))
<1>1. /\ d.mechanism \in Mechanisms /\ OwnMechanism(d.protocol, d.mechanism) /\ d.choice \in Choices
      /\ d.filled \in Fields /\ d.typed \in Secrets
  BY DraftFields DEF GoodDraft
<1>2. Sound(d, {[d EXCEPT !.clear = TRUE]})
  BY <1>1, DraftWith
<1> QED BY <1>2 DEF Form!ClearLink, Sound

LEMMA TlsSound ==
    ASSUME NEW d, GoodDraft(d), NEW extras PROVE Sound(d, Form!SwitchTls(d, extras))
<1>1. /\ d.mechanism \in Mechanisms /\ OwnMechanism(d.protocol, d.mechanism) /\ d.choice \in Choices
      /\ d.filled \in Fields /\ d.typed \in Secrets
  BY DraftFields DEF GoodDraft
<1>2. d.filled \ ({"tls"} \cup extras) \in Fields /\ d.filled \cup {"tls"} \in Fields
  BY <1>1 DEF Fields, Form!AllFields
<1>3. /\ Sound(d, {[d EXCEPT !.filled = d.filled \ ({"tls"} \cup extras)]})
      /\ Sound(d, {[d EXCEPT !.filled = d.filled \cup {"tls"}]})
  BY <1>1, <1>2, DraftWith
<1>4. d \in Drafts
  BY DEF GoodDraft
<1> QED BY <1>3, <1>4 DEF Form!SwitchTls, Sound, Drafts

LEMMA MechanismSound ==
    ASSUME NEW d, GoodDraft(d), NEW mechanisms,
           \A m \in mechanisms : m \in Mechanisms /\ OwnMechanism(d.protocol, m)
    PROVE  Sound(d, Form!Mechanism(d, mechanisms))
<1> SUFFICES ASSUME NEW e \in Form!Mechanism(d, mechanisms) PROVE Sound(d, {e})
  BY DEF Sound
<1>1. /\ d \in Drafts /\ d.choice \in Choices /\ d.filled \in Fields /\ d.typed \in Secrets
  BY DraftFields DEF GoodDraft
<1>2. PICK m \in mechanisms :
        e = [d EXCEPT !.mechanism = m, !.typed = d.typed \ Form!Unless(m # "none", Form!Login)]
  BY <1>1 DEF Form!Mechanism
<1>3. d.typed \ Form!Unless(m # "none", Form!Login) \in Secrets
  BY <1>1 DEF Secrets
<1>4. Sound(d, {[d EXCEPT !.mechanism = m, !.typed = d.typed \ Form!Unless(m # "none", Form!Login)]})
  BY <1>1, <1>3, DraftWith
<1> QED BY <1>2, <1>4

LEMMA ChoiceSound ==
    ASSUME NEW d, GoodDraft(d), NEW c \in Choices, NEW dropped
    PROVE  Sound(d, {[d EXCEPT !.choice = c, !.filled = d.filled \ dropped]})
<1>1. /\ d.mechanism \in Mechanisms /\ OwnMechanism(d.protocol, d.mechanism)
      /\ d.filled \ dropped \in Fields /\ d.typed \in Secrets
  BY DraftFields DEF GoodDraft, Fields
<1> QED BY <1>1, DraftWith

LEMMA Keeps ==
    ASSUME NEW d, GoodDraft(d), NEW filled \in Fields
    PROVE  Sound(d, {[d EXCEPT !.filled = filled]})
<1>1. /\ d.mechanism \in Mechanisms /\ OwnMechanism(d.protocol, d.mechanism) /\ d.choice \in Choices
      /\ d.typed \in Secrets
  BY DraftFields DEF GoodDraft
<1> QED BY <1>1, DraftWith

(* The forms, family by family. *)
LEMMA SecretSets ==
    /\ Form!Login \in Secrets /\ Form!AwsKeys \in Secrets /\ Form!Messaging \in Secrets /\ Form!Rest \in Secrets
    /\ \A m : Form!NatsSecrets(m) \cup {"systemUser", "systemPassword"} \in Secrets
    /\ {"accessKey", "secretKey"} \in Secrets /\ {"token"} \in Secrets
    /\ {"managementKey", "managementSecret"} \in Secrets
    /\ {"amqpUsername", "amqpPassword"} \in Secrets
    /\ {"credentialsJson"} \in Secrets /\ {"sharedAccessKey", "connectionString"} \in Secrets
<1>1. \A m : Form!NatsSecrets(m) \subseteq Form!AllSecrets
  BY FormTables
<1> QED BY <1>1, FormTables DEF Secrets, Form!AllSecrets

LEMMA RocketMQSound ==
    ASSUME NEW d, GoodDraft(d), d.protocol = "rocketmq" PROVE Sound(d, Form!RocketMQForm(d))
<1>1. Sound(d, Form!Typing(d, {"name", "endpoints", "others"}))
  <2>1. {"name", "endpoints", "others"} \in Fields
    BY FormTables DEF Fields, Form!AllFields, Form!Unless
  <2> QED BY <2>1, TypingSound
<1>2. Sound(d, Form!Secrets(d, {"accessKey", "secretKey"}))
  BY SecretSets, SecretsSound
<1>3. Sound(d, Form!ClearLink(d))
  BY ClearSound
<1>4. Sound(d, Form!Typing(d, {"proxy"}))
  <2>1. {"proxy"} \in Fields
    BY FormTables DEF Fields, Form!AllFields, Form!Unless
  <2> QED BY <2>1, TypingSound
<1>5. Sound(d, Form!Typing(d, {"v5"}))
  <2>1. {"v5"} \in Fields
    BY FormTables DEF Fields, Form!AllFields, Form!Unless
  <2> QED BY <2>1, TypingSound
<1>6. Sound(d, {[d EXCEPT !.filled = d.filled \ {"v5", "proxy"}]})
  <2>1. d.filled \ {"v5", "proxy"} \in Fields
    BY DraftFields DEF GoodDraft, Fields
  <2> QED BY <2>1, Keeps
<1> QED BY <1>1, <1>2, <1>3, <1>4, <1>5, <1>6 DEF Form!RocketMQForm, Sound

LEMMA KafkaSound ==
    ASSUME NEW d, GoodDraft(d), d.protocol = "kafka" PROVE Sound(d, Form!KafkaForm(d))
<1>1. Sound(d, Form!Typing(d, {"name", "endpoints"} \cup Form!Unless(d.mechanism # "sasl-scram", {"others"}) \cup Form!Unless("tls" \notin d.filled, Form!TlsExtras)))
  <2>1. {"name", "endpoints"} \cup Form!Unless(d.mechanism # "sasl-scram", {"others"}) \cup Form!Unless("tls" \notin d.filled, Form!TlsExtras) \in Fields
    BY FormTables DEF Fields, Form!AllFields, Form!Unless
  <2> QED BY <2>1, TypingSound
<1>2. Sound(d, Form!Mechanism(d, {"none", "sasl-plain", "sasl-scram"}))
  <2>1. \A m \in {"none", "sasl-plain", "sasl-scram"} : m \in Mechanisms /\ OwnMechanism(d.protocol, m)
    BY DEF Mechanisms, OwnMechanism, ShowsPlain
  <2> QED BY <2>1, MechanismSound
<1>3. Sound(d, Form!SwitchTls(d, Form!TlsExtras))
  BY TlsSound
<1>4. Sound(d, Form!Secrets(d, Form!Login))
  BY SecretSets, SecretsSound
<1>5. Sound(d, Form!ClearLink(d))
  BY ClearSound
<1> QED BY <1>1, <1>2, <1>3, <1>4, <1>5 DEF Form!KafkaForm, Sound

LEMMA RabbitMQSound ==
    ASSUME NEW d, GoodDraft(d), d.protocol = "rabbitmq" PROVE Sound(d, Form!RabbitMQForm(d))
<1>1. Sound(d, Form!Typing(d, {"name", "endpoints", "vhost", "others"} \cup Form!Unless("tls" \notin d.filled, {"tlsSkipVerify"})))
  <2>1. {"name", "endpoints", "vhost", "others"} \cup Form!Unless("tls" \notin d.filled, {"tlsSkipVerify"}) \in Fields
    BY FormTables DEF Fields, Form!AllFields, Form!Unless
  <2> QED BY <2>1, TypingSound
<1>2. Sound(d, Form!Secrets(d, Form!Login))
  BY SecretSets, SecretsSound
<1>3. Sound(d, Form!ClearLink(d))
  BY ClearSound
<1>4. Sound(d, Form!SwitchTls(d, {"tlsSkipVerify"}))
  BY TlsSound
<1> QED BY <1>1, <1>2, <1>3, <1>4 DEF Form!RabbitMQForm, Sound

LEMMA PulsarSound ==
    ASSUME NEW d, GoodDraft(d), d.protocol = "pulsar" PROVE Sound(d, Form!PulsarForm(d))
<1>1. Sound(d, Form!Typing(d, {"name", "endpoints", "admin", "tenant", "namespace"} \cup Form!Unless("tls" \notin d.filled, Form!TlsExtras)))
  <2>1. {"name", "endpoints", "admin", "tenant", "namespace"} \cup Form!Unless("tls" \notin d.filled, Form!TlsExtras) \in Fields
    BY FormTables DEF Fields, Form!AllFields, Form!Unless
  <2> QED BY <2>1, TypingSound
<1>2. Sound(d, {[d EXCEPT !.mechanism = m, !.typed = IF m = "none" THEN {} ELSE @] : m \in {"none", "token"}})
  <2> SUFFICES ASSUME NEW e \in {[d EXCEPT !.mechanism = m, !.typed = IF m = "none" THEN {} ELSE @]
                                  : m \in {"none", "token"}}
               PROVE  Sound(d, {e})
    BY DEF Sound
  <2>1. /\ d \in Drafts /\ d.choice \in Choices /\ d.filled \in Fields /\ d.typed \in Secrets
    BY DraftFields DEF GoodDraft
  <2>2. PICK m \in {"none", "token"} :
          e = [d EXCEPT !.mechanism = m, !.typed = IF m = "none" THEN {} ELSE d.typed]
    BY <2>1
  <2> DEFINE typed == IF m = "none" THEN {} ELSE d.typed
  <2>3. m \in Mechanisms /\ OwnMechanism(d.protocol, m) /\ typed \in Secrets
    BY <2>1 DEF Mechanisms, Form!NatsMechanisms, OwnMechanism, ShowsPlain, Secrets
  <2> HIDE DEF typed
  <2>4. Sound(d, {[d EXCEPT !.mechanism = m, !.typed = typed]})
    BY <2>1, <2>3, DraftWith
  <2> QED BY <2>2, <2>4 DEF typed
<1>3. Sound(d, Form!SwitchTls(d, Form!TlsExtras))
  BY TlsSound
<1>4. Sound(d, Form!Secrets(d, {"token"}))
  BY SecretSets, SecretsSound
<1>5. Sound(d, Form!ClearLink(d))
  BY ClearSound
<1> QED BY <1>1, <1>2, <1>3, <1>4, <1>5 DEF Form!PulsarForm, Sound

LEMMA RedisSound ==
    ASSUME NEW d, GoodDraft(d), d.protocol = "redis" PROVE Sound(d, Form!RedisForm(d))
<1>1. Sound(d, Form!Typing(d, {"name", "endpoints", "several", "others"} \cup Form!Unless(d.choice # "sentinel", {"masterName"}) \cup Form!Unless(d.choice = "cluster", {"db"}) \cup Form!Unless("tls" \notin d.filled, {"tlsSkipVerify"})))
  <2>1. {"name", "endpoints", "several", "others"} \cup Form!Unless(d.choice # "sentinel", {"masterName"}) \cup Form!Unless(d.choice = "cluster", {"db"}) \cup Form!Unless("tls" \notin d.filled, {"tlsSkipVerify"}) \in Fields
    BY FormTables DEF Fields, Form!AllFields, Form!Unless
  <2> QED BY <2>1, TypingSound
<1>2. Sound(d, {[d EXCEPT !.choice = c, !.filled = @ \ (Form!Unless(c # "cluster", {"db"}) \cup Form!Unless(c = "sentinel", {"masterName"}))] : c \in {"standalone", "sentinel", "cluster"}})
  <2> SUFFICES ASSUME NEW e \in {[d EXCEPT !.choice = c, !.filled = @ \ (Form!Unless(c # "cluster", {"db"}) \cup Form!Unless(c = "sentinel", {"masterName"}))] : c \in {"standalone", "sentinel", "cluster"}}
               PROVE  Sound(d, {e})
    BY DEF Sound
  <2>1. d \in Drafts
    BY DEF GoodDraft
  <2>2. PICK c \in {"standalone", "sentinel", "cluster"} : e = [d EXCEPT !.choice = c, !.filled = d.filled \ (Form!Unless(c # "cluster", {"db"}) \cup Form!Unless(c = "sentinel", {"masterName"}))]
    BY <2>1
  <2>3. c \in Choices
    BY DEF Choices
  <2> QED BY <2>2, <2>3, ChoiceSound
<1>3. Sound(d, Form!Secrets(d, Form!Login))
  BY SecretSets, SecretsSound
<1>4. Sound(d, Form!ClearLink(d))
  BY ClearSound
<1>5. Sound(d, Form!SwitchTls(d, {"tlsSkipVerify"}))
  BY TlsSound
<1> QED BY <1>1, <1>2, <1>3, <1>4, <1>5 DEF Form!RedisForm, Sound

LEMMA MqttSound ==
    ASSUME NEW d, GoodDraft(d), d.protocol = "mqtt" PROVE Sound(d, Form!MqttForm(d))
<1>1. Sound(d, Form!Typing(d, {"name", "endpoints", "others", "managementUrl"} \cup Form!Unless(~Form!WebSocket(d.choice), {"wsPath"}) \cup Form!Unless("v5" \notin d.filled, {"sessionExpiry"}) \cup Form!Unless(~Form!Encrypted(d.choice), Form!TlsExtras)))
  <2>1. {"name", "endpoints", "others", "managementUrl"} \cup Form!Unless(~Form!WebSocket(d.choice), {"wsPath"}) \cup Form!Unless("v5" \notin d.filled, {"sessionExpiry"}) \cup Form!Unless(~Form!Encrypted(d.choice), Form!TlsExtras) \in Fields
    BY FormTables DEF Fields, Form!AllFields, Form!Unless
  <2> QED BY <2>1, TypingSound
<1>2. Sound(d, {[d EXCEPT !.filled = IF "v5" \in @ THEN @ \ {"v5", "sessionExpiry"} ELSE @ \cup {"v5"}]})
  <2> DEFINE filled == IF "v5" \in d.filled THEN d.filled \ {"v5", "sessionExpiry"} ELSE d.filled \cup {"v5"}
  <2>1. d \in Drafts /\ filled \in Fields
    BY DraftFields DEF GoodDraft, Fields, Form!AllFields
  <2>2. [d EXCEPT !.filled = IF "v5" \in @ THEN @ \ {"v5", "sessionExpiry"} ELSE @ \cup {"v5"}]
        = [d EXCEPT !.filled = filled]
    BY <2>1
  <2> HIDE DEF filled
  <2>3. Sound(d, {[d EXCEPT !.filled = filled]})
    BY <2>1, Keeps
  <2> QED BY <2>2, <2>3
<1>3. Sound(d, {[d EXCEPT !.choice = c, !.filled = @ \ Form!Unless(Form!Encrypted(c), Form!TlsExtras)] : c \in {"tcp", "tls", "ws", "wss"}})
  <2> SUFFICES ASSUME NEW e \in {[d EXCEPT !.choice = c, !.filled = @ \ Form!Unless(Form!Encrypted(c), Form!TlsExtras)] : c \in {"tcp", "tls", "ws", "wss"}}
               PROVE  Sound(d, {e})
    BY DEF Sound
  <2>1. d \in Drafts
    BY DEF GoodDraft
  <2>2. PICK c \in {"tcp", "tls", "ws", "wss"} : e = [d EXCEPT !.choice = c, !.filled = d.filled \ Form!Unless(Form!Encrypted(c), Form!TlsExtras)]
    BY <2>1
  <2>3. c \in Choices
    BY DEF Choices
  <2> QED BY <2>2, <2>3, ChoiceSound
<1>4. Sound(d, Form!Mechanism(d, {"none", "plain"}))
  <2>1. \A m \in {"none", "plain"} : m \in Mechanisms /\ OwnMechanism(d.protocol, m)
    BY DEF Mechanisms, OwnMechanism, ShowsPlain
  <2> QED BY <2>1, MechanismSound
<1>5. Sound(d, Form!Secrets(d, Form!Login))
  BY SecretSets, SecretsSound
<1>6. Sound(d, Form!ClearLink(d))
  BY ClearSound
<1>7. Sound(d, Form!Secrets(d, {"managementKey", "managementSecret"}))
  BY SecretSets, SecretsSound
<1> QED BY <1>1, <1>2, <1>3, <1>4, <1>5, <1>6, <1>7 DEF Form!MqttForm, Sound

LEMMA NatsSound ==
    ASSUME NEW d, GoodDraft(d), d.protocol = "nats" PROVE Sound(d, Form!NatsForm(d))
<1>1. Sound(d, Form!Typing(d, {"name", "endpoints", "others"} \cup Form!NatsFiles(d.mechanism) \cup Form!Unless(d.mechanism # "mtls" /\ "tls" \notin d.filled, Form!TlsExtras)))
  <2>1. {"name", "endpoints", "others"} \cup Form!NatsFiles(d.mechanism) \cup Form!Unless(d.mechanism # "mtls" /\ "tls" \notin d.filled, Form!TlsExtras) \in Fields
    BY FormTables DEF Fields, Form!AllFields, Form!Unless
  <2> QED BY <2>1, TypingSound
<1>2. Sound(d, {[d EXCEPT !.mechanism = m,
                    !.typed = @ \ (Form!NatsOwnSecrets \ Form!NatsSecrets(m)),
                    !.filled = @ \ (Form!NatsOwnFiles \ Form!NatsFiles(m))] : m \in Form!NatsMechanisms})
  <2> SUFFICES ASSUME NEW e \in {[d EXCEPT !.mechanism = m,
                    !.typed = @ \ (Form!NatsOwnSecrets \ Form!NatsSecrets(m)),
                    !.filled = @ \ (Form!NatsOwnFiles \ Form!NatsFiles(m))] : m \in Form!NatsMechanisms}
               PROVE  Sound(d, {e})
    BY DEF Sound
  <2>1. /\ d \in Drafts /\ d.choice \in Choices /\ d.filled \in Fields /\ d.typed \in Secrets
    BY DraftFields DEF GoodDraft
  <2>2. PICK m \in Form!NatsMechanisms :
          e = [d EXCEPT !.mechanism = m,
                        !.typed = d.typed \ (Form!NatsOwnSecrets \ Form!NatsSecrets(m)),
                        !.filled = d.filled \ (Form!NatsOwnFiles \ Form!NatsFiles(m))]
    BY <2>1
  <2> DEFINE typed == d.typed \ (Form!NatsOwnSecrets \ Form!NatsSecrets(m))
             filled == d.filled \ (Form!NatsOwnFiles \ Form!NatsFiles(m))
  <2>3. m \in Mechanisms /\ OwnMechanism(d.protocol, m)
    BY DEF Mechanisms, OwnMechanism, ShowsPlain
  <2>4. typed \in Secrets /\ filled \in Fields
    BY <2>1 DEF Secrets, Fields
  <2> HIDE DEF typed, filled
  <2>5. Sound(d, {[d EXCEPT !.mechanism = m, !.typed = typed, !.filled = filled]})
    BY <2>1, <2>3, <2>4, DraftWith
  <2> QED BY <2>2, <2>5 DEF typed, filled
<1>3. Sound(d, Form!SwitchTls(d, Form!TlsExtras))
  BY TlsSound
<1>4. Sound(d, Form!Secrets(d, Form!NatsSecrets(d.mechanism) \cup {"systemUser", "systemPassword"}))
  BY SecretSets, SecretsSound
<1>5. Sound(d, Form!ClearLink(d))
  BY ClearSound
<1> QED BY <1>1, <1>2, <1>3, <1>4, <1>5 DEF Form!NatsForm, Sound

LEMMA ActiveMQSound ==
    ASSUME NEW d, GoodDraft(d), d.protocol = "activemq" PROVE Sound(d, Form!ActiveMQForm(d))
<1>1. Sound(d, Form!Typing(d, {"name", "endpoints", "amqpUrl", "others"}))
  <2>1. {"name", "endpoints", "amqpUrl", "others"} \in Fields
    BY FormTables DEF Fields, Form!AllFields, Form!Unless
  <2> QED BY <2>1, TypingSound
<1>2. Sound(d, Form!Mechanism(d, {"none", "plain"}))
  <2>1. \A m \in {"none", "plain"} : m \in Mechanisms /\ OwnMechanism(d.protocol, m)
    BY DEF Mechanisms, OwnMechanism, ShowsPlain
  <2> QED BY <2>1, MechanismSound
<1>3. Sound(d, Form!Secrets(d, Form!Login))
  BY SecretSets, SecretsSound
<1>4. Sound(d, Form!ClearLink(d))
  BY ClearSound
<1>5. Sound(d, Form!Secrets(d, {"amqpUsername", "amqpPassword"}))
  BY SecretSets, SecretsSound
<1> QED BY <1>1, <1>2, <1>3, <1>4, <1>5 DEF Form!ActiveMQForm, Sound

LEMMA NsqSound ==
    ASSUME NEW d, GoodDraft(d), d.protocol = "nsq" PROVE Sound(d, Form!NsqForm(d))
<1>1. Sound(d, Form!Typing(d, {"name", "endpoints", "others"}))
  <2>1. {"name", "endpoints", "others"} \in Fields
    BY FormTables DEF Fields, Form!AllFields, Form!Unless
  <2> QED BY <2>1, TypingSound
<1> QED BY <1>1 DEF Form!NsqForm, Sound

LEMMA SqsSound ==
    ASSUME NEW d, GoodDraft(d), d.protocol = "sqs" PROVE Sound(d, Form!SqsForm(d))
<1>1. Sound(d, Form!Typing(d, {"name", "region", "others"}))
  <2>1. {"name", "region", "others"} \in Fields
    BY FormTables DEF Fields, Form!AllFields, Form!Unless
  <2> QED BY <2>1, TypingSound
<1>2. Sound(d, Form!Secrets(d, Form!AwsKeys))
  BY SecretSets, SecretsSound
<1>3. Sound(d, Form!ClearLink(d))
  BY ClearSound
<1> QED BY <1>1, <1>2, <1>3 DEF Form!SqsForm, Sound

LEMMA GooglePubSubSound ==
    ASSUME NEW d, GoodDraft(d), d.protocol = "google-pubsub" PROVE Sound(d, Form!GooglePubSubForm(d))
<1>1. Sound(d, Form!Typing(d, {"name", "projectId", "others"}))
  <2>1. {"name", "projectId", "others"} \in Fields
    BY FormTables DEF Fields, Form!AllFields, Form!Unless
  <2> QED BY <2>1, TypingSound
<1>2. Sound(d, Form!Secrets(d, {"credentialsJson"}))
  BY SecretSets, SecretsSound
<1>3. Sound(d, Form!ClearLink(d))
  BY ClearSound
<1> QED BY <1>1, <1>2, <1>3 DEF Form!GooglePubSubForm, Sound

LEMMA AzureServiceBusSound ==
    ASSUME NEW d, GoodDraft(d), d.protocol = "azure-servicebus" PROVE Sound(d, Form!AzureServiceBusForm(d))
<1>1. Sound(d, Form!Typing(d, {"name", "endpoints", "keyName", "others"}))
  <2>1. {"name", "endpoints", "keyName", "others"} \in Fields
    BY FormTables DEF Fields, Form!AllFields, Form!Unless
  <2> QED BY <2>1, TypingSound
<1>2. Sound(d, Form!Secrets(d, {"sharedAccessKey", "connectionString"}))
  BY SecretSets, SecretsSound
<1>3. Sound(d, Form!ClearLink(d))
  BY ClearSound
<1> QED BY <1>1, <1>2, <1>3 DEF Form!AzureServiceBusForm, Sound

LEMMA KinesisSound ==
    ASSUME NEW d, GoodDraft(d), d.protocol = "kinesis" PROVE Sound(d, Form!KinesisForm(d))
<1>1. Sound(d, Form!Typing(d, {"name", "region", "others"}))
  <2>1. {"name", "region", "others"} \in Fields
    BY FormTables DEF Fields, Form!AllFields, Form!Unless
  <2> QED BY <2>1, TypingSound
<1>2. Sound(d, Form!Secrets(d, Form!AwsKeys))
  BY SecretSets, SecretsSound
<1>3. Sound(d, Form!ClearLink(d))
  BY ClearSound
<1> QED BY <1>1, <1>2, <1>3 DEF Form!KinesisForm, Sound

LEMMA IbmMqSound ==
    ASSUME NEW d, GoodDraft(d), d.protocol = "ibmmq" PROVE Sound(d, Form!IbmMqForm(d))
<1>1. Sound(d, Form!Typing(d, {"name", "endpoints", "others"}))
  <2>1. {"name", "endpoints", "others"} \in Fields
    BY FormTables DEF Fields, Form!AllFields, Form!Unless
  <2> QED BY <2>1, TypingSound
<1>2. Sound(d, Form!Mechanism(d, {"none", "plain"}))
  <2>1. \A m \in {"none", "plain"} : m \in Mechanisms /\ OwnMechanism(d.protocol, m)
    BY DEF Mechanisms, OwnMechanism, ShowsPlain
  <2> QED BY <2>1, MechanismSound
<1>3. Sound(d, Form!Secrets(d, Form!Messaging))
  BY SecretSets, SecretsSound
<1>4. Sound(d, Form!Secrets(d, Form!Login))
  BY SecretSets, SecretsSound
<1>5. Sound(d, Form!ClearLink(d))
  BY ClearSound
<1> QED BY <1>1, <1>2, <1>3, <1>4, <1>5 DEF Form!IbmMqForm, Sound

LEMMA SolaceSound ==
    ASSUME NEW d, GoodDraft(d), d.protocol = "solace" PROVE Sound(d, Form!SolaceForm(d))
<1>1. Sound(d, Form!Typing(d, {"name", "endpoints", "others"}))
  <2>1. {"name", "endpoints", "others"} \in Fields
    BY FormTables DEF Fields, Form!AllFields, Form!Unless
  <2> QED BY <2>1, TypingSound
<1>2. Sound(d, Form!Mechanism(d, {"none", "plain"}))
  <2>1. \A m \in {"none", "plain"} : m \in Mechanisms /\ OwnMechanism(d.protocol, m)
    BY DEF Mechanisms, OwnMechanism, ShowsPlain
  <2> QED BY <2>1, MechanismSound
<1>3. Sound(d, Form!Secrets(d, Form!Rest))
  BY SecretSets, SecretsSound
<1>4. Sound(d, Form!Secrets(d, Form!Login))
  BY SecretSets, SecretsSound
<1>5. Sound(d, Form!ClearLink(d))
  BY ClearSound
<1> QED BY <1>1, <1>2, <1>3, <1>4, <1>5 DEF Form!SolaceForm, Sound

LEMMA FormSound == ASSUME NEW d, GoodDraft(d) PROVE Sound(d, Form!Form(d))
<1>1. d.protocol \in Form!Protocols
  BY DraftFields DEF GoodDraft
<1>2. CASE d.protocol = "rabbitmq"
  BY <1>2, RabbitMQSound DEF Form!Form
<1>3. CASE d.protocol = "kafka"
  BY <1>3, KafkaSound DEF Form!Form
<1>4. CASE d.protocol = "pulsar"
  BY <1>4, PulsarSound DEF Form!Form
<1>5. CASE d.protocol = "redis"
  BY <1>5, RedisSound DEF Form!Form
<1>6. CASE d.protocol = "mqtt"
  BY <1>6, MqttSound DEF Form!Form
<1>7. CASE d.protocol = "nats"
  BY <1>7, NatsSound DEF Form!Form
<1>8. CASE d.protocol = "activemq"
  BY <1>8, ActiveMQSound DEF Form!Form
<1>9. CASE d.protocol = "nsq"
  BY <1>9, NsqSound DEF Form!Form
<1>10. CASE d.protocol = "sqs"
  BY <1>10, SqsSound DEF Form!Form
<1>11. CASE d.protocol = "google-pubsub"
  BY <1>11, GooglePubSubSound DEF Form!Form
<1>12. CASE d.protocol = "azure-servicebus"
  BY <1>12, AzureServiceBusSound DEF Form!Form
<1>13. CASE d.protocol = "kinesis"
  BY <1>13, KinesisSound DEF Form!Form
<1>14. CASE d.protocol = "ibmmq"
  BY <1>14, IbmMqSound DEF Form!Form
<1>15. CASE d.protocol = "solace"
  BY <1>15, SolaceSound DEF Form!Form
<1>16. CASE d.protocol = "rocketmq"
  BY <1>16, RocketMQSound DEF Form!Form
<1> QED
  BY <1>1, <1>2, <1>3, <1>4, <1>5, <1>6, <1>7, <1>8, <1>9, <1>10, <1>11, <1>12, <1>13, <1>14, <1>15, <1>16 DEF Form!Protocols

(* The drafts a form starts with. *)
LEMMA EmptyIs ==
    ASSUME NEW p \in Form!Protocols, NEW m \in {"none", "plain"}, NEW c \in {"-", "standalone", "tcp"},
           NEW f \in Fields, p \in {"kafka", "pulsar"} => m = "none"
    PROVE  GoodDraft(Form!Empty(p, m, c, f)) /\ Form!Empty(p, m, c, f).protocol = p
<1>1. m \in Mechanisms /\ c \in Choices /\ {} \in Secrets /\ OwnMechanism(p, m)
  BY DEF Mechanisms, Choices, Secrets, OwnMechanism, Form!NatsMechanisms
<1> DEFINE d == Form!Empty(p, m, c, f)
<1>2. d \in Drafts /\ d.protocol = p /\ d.mechanism = m
  BY <1>1 DEF Form!Empty, Drafts
<1> HIDE DEF d
<1>3. OwnMechanism(d.protocol, d.mechanism)
  BY Zenon, <1>1, <1>2
<1> QED BY <1>2, <1>3 DEF GoodDraft, d

LEMMA EmptyGood ==
    ASSUME NEW p \in Form!Protocols
    PROVE  GoodDraft(Form!emptyDraft(p)) /\ Form!emptyDraft(p).protocol = p
<1>0. \A f \in {{}, {"v5"}, {"vhost"}, {"tenant", "namespace"}, {"v5", "wsPath"}, {"keyName"}} : f \in Fields
  BY DEF Fields, Form!AllFields
<1>1. CASE p = "rabbitmq"
  <2>1. Form!emptyDraft(p) = Form!Empty(p, "plain", "-", {"vhost"})
    BY <1>1 DEF Form!emptyDraft, Form!emptyRabbitMQDraft
  <2> QED BY <1>0, <1>1, <2>1, EmptyIs
<1>2. CASE p = "kafka"
  <2>1. Form!emptyDraft(p) = Form!Empty(p, "none", "-", {})
    BY <1>2 DEF Form!emptyDraft, Form!emptyKafkaDraft
  <2> QED BY <1>0, <1>2, <2>1, EmptyIs
<1>3. CASE p = "pulsar"
  <2>1. Form!emptyDraft(p) = Form!Empty(p, "none", "-", {"tenant", "namespace"})
    BY <1>3 DEF Form!emptyDraft, Form!emptyPulsarDraft
  <2> QED BY <1>0, <1>3, <2>1, EmptyIs
<1>4. CASE p = "redis"
  <2>1. Form!emptyDraft(p) = Form!Empty(p, "none", "standalone", {})
    BY <1>4 DEF Form!emptyDraft, Form!emptyRedisDraft
  <2> QED BY <1>0, <1>4, <2>1, EmptyIs
<1>5. CASE p = "mqtt"
  <2>1. Form!emptyDraft(p) = Form!Empty(p, "none", "tcp", {"v5", "wsPath"})
    BY <1>5 DEF Form!emptyDraft, Form!emptyMqttDraft
  <2> QED BY <1>0, <1>5, <2>1, EmptyIs
<1>6. CASE p = "nats"
  <2>1. Form!emptyDraft(p) = Form!Empty(p, "none", "-", {})
    BY <1>6 DEF Form!emptyDraft, Form!emptyNatsDraft
  <2> QED BY <1>0, <1>6, <2>1, EmptyIs
<1>7. CASE p = "activemq"
  <2>1. Form!emptyDraft(p) = Form!Empty(p, "plain", "-", {})
    BY <1>7 DEF Form!emptyDraft, Form!emptyActiveMQDraft
  <2> QED BY <1>0, <1>7, <2>1, EmptyIs
<1>8. CASE p = "nsq"
  <2>1. Form!emptyDraft(p) = Form!Empty(p, "none", "-", {})
    BY <1>8 DEF Form!emptyDraft, Form!emptyNsqDraft
  <2> QED BY <1>0, <1>8, <2>1, EmptyIs
<1>9. CASE p = "sqs"
  <2>1. Form!emptyDraft(p) = Form!Empty(p, "none", "-", {})
    BY <1>9 DEF Form!emptyDraft, Form!emptySqsDraft
  <2> QED BY <1>0, <1>9, <2>1, EmptyIs
<1>10. CASE p = "google-pubsub"
  <2>1. Form!emptyDraft(p) = Form!Empty(p, "none", "-", {})
    BY <1>10 DEF Form!emptyDraft, Form!emptyGooglePubSubDraft
  <2> QED BY <1>0, <1>10, <2>1, EmptyIs
<1>11. CASE p = "azure-servicebus"
  <2>1. Form!emptyDraft(p) = Form!Empty(p, "none", "-", {"keyName"})
    BY <1>11 DEF Form!emptyDraft, Form!emptyAzureServiceBusDraft
  <2> QED BY <1>0, <1>11, <2>1, EmptyIs
<1>12. CASE p = "kinesis"
  <2>1. Form!emptyDraft(p) = Form!Empty(p, "none", "-", {})
    BY <1>12 DEF Form!emptyDraft, Form!emptyKinesisDraft
  <2> QED BY <1>0, <1>12, <2>1, EmptyIs
<1>13. CASE p = "ibmmq"
  <2>1. Form!emptyDraft(p) = Form!Empty(p, "plain", "-", {})
    BY <1>13 DEF Form!emptyDraft, Form!emptyIbmMqDraft
  <2> QED BY <1>0, <1>13, <2>1, EmptyIs
<1>14. CASE p = "solace"
  <2>1. Form!emptyDraft(p) = Form!Empty(p, "plain", "-", {})
    BY <1>14 DEF Form!emptyDraft, Form!emptySolaceDraft
  <2> QED BY <1>0, <1>14, <2>1, EmptyIs
<1>15. CASE p = "rocketmq"
  <2>1. Form!emptyDraft(p) = Form!Empty(p, "none", "-", {"v5"})
    BY <1>15 DEF Form!emptyDraft, Form!emptyRocketMQDraft
  <2> QED BY <1>0, <1>15, <2>1, EmptyIs
<1> QED
  BY <1>1, <1>2, <1>3, <1>4, <1>5, <1>6, <1>7, <1>8, <1>9, <1>10, <1>11, <1>12, <1>13, <1>14, <1>15 DEF Form!Protocols

LEMMA FilledInGood ==
    ASSUME NEW d, GoodDraft(d)
    PROVE  GoodDraft(Form!FilledIn(d)) /\ Form!FilledIn(d).protocol = d.protocol
<1> DEFINE filled == UNION {e.filled : e \in Form!Form(d)} \ {"proxy", "several"}
           typed == UNION {e.typed : e \in Form!Form(d)}
<1>1. \A e \in Form!Form(d) : e.filled \in Fields /\ e.typed \in Secrets
  BY FormSound, DraftFields DEF Sound, GoodDraft
<1>2. filled \in Fields /\ typed \in Secrets
  BY <1>1 DEF Fields, Secrets
<1>3. /\ d.mechanism \in Mechanisms /\ OwnMechanism(d.protocol, d.mechanism) /\ d.choice \in Choices
  BY DraftFields DEF GoodDraft
<1>4. Form!FilledIn(d) = [d EXCEPT !.filled = filled, !.typed = typed]
  BY DEF Form!FilledIn
<1> HIDE DEF filled, typed
<1>5. Sound(d, {[d EXCEPT !.filled = filled, !.typed = typed]})
  BY <1>2, <1>3, DraftWith
<1> QED BY <1>4, <1>5 DEF Sound

LEMMA FirstGood == ASSUME NEW q \in Form!FirstProfiles PROVE GoodProfile(q)
<1>1. PICK p \in Form!Protocols : \E d \in Form!FirstDrafts(p) :
        q = Form!applyCredentialsMode({}, Form!toSubmission(d))
  BY DEF Form!FirstProfiles
<1>0. PICK d \in Form!FirstDrafts(p) : q = Form!applyCredentialsMode({}, Form!toSubmission(d))
  BY <1>1
<1>2. PICK mechanism \in Form!FirstMechanisms(p), choice \in Form!FirstChoices(p) :
        d = Form!FullForm(p, mechanism, choice)
  BY <1>0 DEF Form!FirstDrafts
<1> DEFINE first == [Form!emptyDraft(p) EXCEPT !.mechanism = mechanism, !.choice = choice]
<1>9. d = Form!FilledIn(Form!FilledIn(first))
  BY <1>2 DEF Form!FullForm
<1>3. GoodDraft(Form!emptyDraft(p)) /\ Form!emptyDraft(p).protocol = p
  BY EmptyGood
<1>4. mechanism \in Mechanisms /\ OwnMechanism(p, mechanism)
  <2>1. Form!emptyDraft(p).mechanism \in Mechanisms /\ OwnMechanism(p, Form!emptyDraft(p).mechanism)
    BY <1>3, DraftFields DEF GoodDraft
  <2>2. CASE p = "kafka"
    BY <2>2 DEF Form!FirstMechanisms, Mechanisms, OwnMechanism, ShowsPlain
  <2>3. CASE p = "pulsar"
    BY <2>3 DEF Form!FirstMechanisms, Mechanisms, Form!NatsMechanisms, OwnMechanism, ShowsPlain
  <2>4. CASE p = "nats"
    BY <2>4 DEF Form!FirstMechanisms, Mechanisms, OwnMechanism, ShowsPlain
  <2>5. CASE p \in {"mqtt", "activemq", "ibmmq", "solace"}
    BY <2>5 DEF Form!FirstMechanisms, Mechanisms, OwnMechanism, ShowsPlain
  <2>6. CASE p \notin {"kafka", "pulsar", "nats", "mqtt", "activemq", "ibmmq", "solace"}
    <3>1. mechanism = Form!emptyDraft(p).mechanism
      BY <2>6 DEF Form!FirstMechanisms
    <3> QED BY <2>1, <3>1
  <2> QED BY <2>2, <2>3, <2>4, <2>5, <2>6
<1>5. choice \in Choices
  <2>1. Form!emptyDraft(p).choice \in Choices
    BY <1>3, DraftFields DEF GoodDraft
  <2>2. CASE p = "redis"
    BY <2>2 DEF Form!FirstChoices, Choices
  <2>3. CASE p = "mqtt"
    BY <2>3 DEF Form!FirstChoices, Choices
  <2>4. CASE p \notin {"redis", "mqtt"}
    <3>1. choice = Form!emptyDraft(p).choice
      BY <2>4 DEF Form!FirstChoices
    <3> QED BY <2>1, <3>1
  <2> QED BY <2>2, <2>3, <2>4
<1>6. Sound(Form!emptyDraft(p), {[Form!emptyDraft(p) EXCEPT !.mechanism = mechanism, !.choice = choice]})
  <2>1. Form!emptyDraft(p).filled \in Fields /\ Form!emptyDraft(p).typed \in Secrets
    BY <1>3, DraftFields DEF GoodDraft
  <2> DEFINE e == Form!emptyDraft(p)
  <2>2. GoodDraft(e) /\ OwnMechanism(e.protocol, mechanism) /\ e.filled \in Fields /\ e.typed \in Secrets
    BY <1>3, <1>4, <2>1
  <2> HIDE DEF e
  <2>3. Sound(e, {[e EXCEPT !.mechanism = mechanism, !.choice = choice]})
    BY <1>4, <1>5, <2>2, DraftWith
  <2> QED BY <2>3 DEF e
<1>7. GoodDraft(d)
  <2>1. GoodDraft(first)
    BY <1>6 DEF Sound
  <2> HIDE DEF first
  <2> QED BY <1>9, <2>1, FilledInGood
<1>8. Becomes(Form!toSubmission(d))
  BY <1>7, SubmissionBecomes
<1> QED BY <1>0, <1>8 DEF Becomes

(* A stored profile, opened and saved untouched. *)
Reopened(d, p, mechanism, filled, keeps) ==
    /\ GoodDraft(d) /\ d.protocol = p.settings.protocol /\ d.mechanism = mechanism
    /\ d.choice = p.settings.choice /\ d.filled = filled
    /\ d.typed = {} /\ (d.stored <=> keeps) /\ ~d.clear

LEMMA ReopenIs ==
    ASSUME NEW p, GoodProfile(p), NEW mechanism \in Mechanisms,
           OwnMechanism(p.settings.protocol, mechanism), NEW dropped, NEW keeps \in BOOLEAN
    PROVE  Reopened(Form!Reopen(p, mechanism, dropped, keeps), p, mechanism,
                    p.settings.filled \ dropped, keeps)
<1> DEFINE d == Form!Reopen(p, mechanism, dropped, keeps)
           filled == p.settings.filled \ dropped
<1>1. /\ p.settings.protocol \in Form!Protocols /\ p.settings.choice \in Choices
      /\ filled \in Fields /\ {} \in Secrets
  BY DEF GoodProfile, Profiles, SettingsSet, Fields, Secrets
<1>2. d = [protocol |-> p.settings.protocol, mechanism |-> mechanism, choice |-> p.settings.choice,
           filled |-> filled, typed |-> {}, stored |-> keeps, clear |-> FALSE]
  BY DEF Form!Reopen
<1> HIDE DEF d, filled
<1>3. /\ d \in Drafts /\ d.protocol = p.settings.protocol /\ d.mechanism = mechanism
      /\ d.choice = p.settings.choice /\ d.filled = filled
      /\ d.typed = {} /\ d.stored = keeps /\ d.clear = FALSE
  BY <1>1, <1>2 DEF Drafts
<1>4. OwnMechanism(d.protocol, d.mechanism)
  BY Zenon, <1>3
<1>5. GoodDraft(d)
  BY <1>3, <1>4 DEF GoodDraft
<1> QED BY <1>3, <1>5 DEF d, filled, Reopened

(* A field that a blank is read back as. *)
LEMMA ReopenMore ==
    ASSUME NEW d, NEW p, NEW mechanism, NEW filled, NEW keeps \in BOOLEAN, NEW more \in Fields,
           Reopened(d, p, mechanism, filled, keeps)
    PROVE  Reopened([d EXCEPT !.filled = @ \cup more], p, mechanism, filled \cup more, keeps)
<1> DEFINE e == [d EXCEPT !.filled = @ \cup more]
<1>1. d \in Drafts /\ d.filled \cup more \in Fields /\ OwnMechanism(d.protocol, d.mechanism)
  BY DraftFields DEF Reopened, GoodDraft, Fields
<1>2. /\ e \in Drafts /\ e.protocol = d.protocol /\ e.mechanism = d.mechanism
      /\ e.choice = d.choice /\ e.filled = d.filled \cup more /\ e.typed = d.typed
      /\ e.stored = d.stored /\ e.clear = d.clear
  BY <1>1 DEF Drafts
<1> HIDE DEF e
<1>3. OwnMechanism(e.protocol, e.mechanism)
  BY Zenon, <1>1, <1>2
<1>4. GoodDraft(e)
  BY <1>2, <1>3 DEF GoodDraft
<1>5. (e.stored <=> keeps) /\ ~e.clear
  BY Zenon, <1>2 DEF Reopened
<1>6. Reopened(e, p, mechanism, filled \cup more, keeps)
  BY <1>2, <1>4, <1>5 DEF Reopened
<1> QED BY <1>6 DEF e

(* What an untouched edit keeps of a profile (UntouchedEditKeeps). *)
ExceptDefaults(fields) == fields \ {"wsPath", "keyName"}
Same(p, q) ==
    /\ q.secrets = p.secrets
    /\ [q.settings EXCEPT !.filled = ExceptDefaults(@)]
       = [p.settings EXCEPT !.filled = ExceptDefaults(@)]

LEMMA SettingsEqual ==
    ASSUME NEW s \in SettingsSet, NEW t \in SettingsSet, s.protocol = t.protocol,
           s.mechanism = t.mechanism, s.choice = t.choice,
           ExceptDefaults(s.filled) = ExceptDefaults(t.filled)
    PROVE  [s EXCEPT !.filled = ExceptDefaults(@)] = [t EXCEPT !.filled = ExceptDefaults(@)]
<1> DEFINE Short(r) == [protocol |-> r.protocol, mechanism |-> r.mechanism, choice |-> r.choice,
                        filled |-> ExceptDefaults(r.filled)]
<1>1. [s EXCEPT !.filled = ExceptDefaults(@)] = Short(s)
  BY DEF SettingsSet
<1>2. [t EXCEPT !.filled = ExceptDefaults(@)] = Short(t)
  BY DEF SettingsSet
<1> QED BY <1>1, <1>2

LEMMA SavedAgain ==
    ASSUME NEW p, GoodProfile(p), NEW d \in Drafts, d.protocol = p.settings.protocol,
           d.choice = p.settings.choice, d.typed = {},
           NEW mechanism \in Mechanisms, NEW dropped, NEW secrets, NEW mode \in Modes,
           mode = "clear" => p.settings.mechanism = "none" /\ p.secrets = {},
           mode # "clear" => mechanism = p.settings.mechanism,
           mode = "replace" => p.secrets = {},
           ExceptDefaults(d.filled \ dropped) = ExceptDefaults(p.settings.filled)
    PROVE  Same(p, Form!applyCredentialsMode({p}, Form!Submit(d, mechanism, dropped, secrets, mode)))
<1> DEFINE q == Form!applyCredentialsMode({p}, Form!Submit(d, mechanism, dropped, secrets, mode))
           clearing == {p} # {} /\ mode = "clear"
<1>1. {p} \in SUBSET Profiles /\ p.settings \in SettingsSet
  BY DEF GoodProfile, Profiles
<1>2. /\ q \in Profiles
      /\ q.settings.protocol = d.protocol /\ q.settings.choice = d.choice
      /\ q.settings.filled = d.filled \ dropped
      /\ q.settings.mechanism = IF clearing THEN "none" ELSE mechanism
      /\ clearing => q.secrets = {}
      /\ ~clearing /\ mode # "preserve" => q.secrets = d.typed \cap secrets
      /\ mode = "preserve" =>
            q.secrets = (d.typed \cap secrets) \cup UNION {r.secrets : r \in {p}}
  BY <1>1, StoredIs
<1> HIDE DEF q
<1>3. q.secrets = p.secrets
  <2>1. UNION {r.secrets : r \in {p}} = p.secrets
    OBVIOUS
  <2> QED BY <1>2, <2>1 DEF Modes
<1>4. q.settings.mechanism = p.settings.mechanism
  BY <1>2
<1>5. ExceptDefaults(q.settings.filled) = ExceptDefaults(p.settings.filled)
  BY <1>2
<1>6. q.settings \in SettingsSet
  BY <1>2 DEF Profiles
<1> QED BY <1>1, <1>2, <1>3, <1>4, <1>5, <1>6, SettingsEqual DEF Same, q

(* Each family reads its profiles back as good drafts, and an untouched one as it was. *)
Reopens(p, d) ==
    /\ GoodDraft(d) /\ d.protocol = p.settings.protocol
    /\ Form!Valid(d) /\ Form!Consistent(p) =>
          Same(p, Form!applyCredentialsMode({p}, Form!toSubmission(d)))

LEMMA HasSecretsIs == ASSUME NEW p PROVE Form!HasSecrets(p) \in BOOLEAN /\ (Form!HasSecrets(p) <=> p.secrets # {})
BY DEF Form!HasSecrets

LEMMA KafkaReopens ==
    ASSUME NEW p, GoodProfile(p), p.settings.protocol = "kafka" PROVE Reopens(p, Form!toKafkaDraft(p))
<1> DEFINE m == Form!Known(p.settings.mechanism, {"sasl-plain", "sasl-scram"})
           dropped == Form!Unless("tls" \in p.settings.filled, Form!TlsExtras)
           keeps == m # "none" /\ Form!HasSecrets(p)
           d0 == Form!Reopen(p, m, dropped, keeps)
           d == d0
<1>1. /\ p.secrets = {} \/ p.secrets # {}
      /\ p.settings.mechanism \in Mechanisms /\ keeps \in BOOLEAN /\ {} \in Fields
      /\ StoredMechanism(p.settings.protocol, p.settings.mechanism)
  BY HasSecretsIs DEF GoodProfile, Profiles, SettingsSet, Fields, Form!AllFields, Form!PlainAndStored
<1>2. m \in Mechanisms /\ OwnMechanism(p.settings.protocol, m)
  BY <1>1 DEF StoredMechanism, OwnMechanism, ShowsPlain, Form!Known, Form!NoneOrPlain, Mechanisms, Form!NatsMechanisms
<1>3. /\ GoodDraft(d) /\ d.protocol = p.settings.protocol /\ d.mechanism = m
      /\ d.choice = p.settings.choice
      /\ d.filled = p.settings.filled \ dropped
      /\ d.typed = {} /\ (d.stored <=> keeps) /\ ~d.clear
  <2> HIDE DEF m, dropped, keeps
  <2>1. Reopened(Form!Reopen(p, m, dropped, keeps), p, m, p.settings.filled \ dropped, keeps)
    BY <1>1, <1>2, ReopenIs
  <2>3. Reopened(d, p, m, p.settings.filled \ dropped, keeps)
    BY <2>1
  <2> HIDE DEF d
  <2> QED BY <2>3 DEF Reopened
<1>4. Form!toKafkaDraft(p) = d
  BY DEF Form!toKafkaDraft
<1> HIDE DEF d
<1>5. ASSUME Form!Valid(d), Form!Consistent(p)
      PROVE  Same(p, Form!applyCredentialsMode({p}, Form!toSubmission(d)))
  <2> DEFINE mechanism == d.mechanism
             left == Form!Unless("tls" \in d.filled, Form!TlsExtras)
             secrets == Form!Unless(~(d.mechanism # "none"), Form!Login)
             mode == IF ~(d.mechanism # "none") THEN "clear" ELSE Form!ReplaceOnce(d, d.typed, Form!keepStored(d))
  <2>1. Form!toSubmission(d) = Form!Submit(d, mechanism, left, secrets, mode)
    BY <1>3 DEF Form!toSubmission, Form!kafkaSubmission
  <2>2. Form!keepStored(d) <=> keeps
    BY <1>3 DEF Form!keepStored
  <2>3. /\ mechanism \in Mechanisms /\ mode \in Modes
        /\ mode = "clear" => p.settings.mechanism = "none" /\ p.secrets = {}
        /\ mode # "clear" => mechanism = p.settings.mechanism
        /\ mode = "replace" => p.secrets = {}
    <3>1. mechanism = p.settings.mechanism
      BY <1>1, <1>3 DEF StoredMechanism, OwnMechanism, Form!Known
    <3>2. p.settings.mechanism = "none" => p.secrets = {}
      BY DEF GoodProfile, Anonymous, Form!KeepsEveryBlank
    <3> QED BY <1>1, <1>3, <2>2, <3>1, <3>2, HasSecretsIs DEF Form!ReplaceOnce, Modes
  <2>4. ExceptDefaults(d.filled \ left) = ExceptDefaults(p.settings.filled)
    BY <1>3 DEF GoodProfile, StoredFields, Form!Unless, ExceptDefaults
  <2>5. d \in Drafts
    BY <1>3 DEF GoodDraft
  <2> HIDE DEF mechanism, left, secrets, mode
  <2> QED BY <1>3, <2>1, <2>3, <2>4, <2>5, SavedAgain
<1> QED BY <1>3, <1>4, <1>5 DEF Reopens

LEMMA PulsarReopens ==
    ASSUME NEW p, GoodProfile(p), p.settings.protocol = "pulsar" PROVE Reopens(p, Form!toPulsarDraft(p))
<1> DEFINE m == Form!Known(p.settings.mechanism, {"token"})
           dropped == Form!Unless("tls" \in p.settings.filled, Form!TlsExtras)
           keeps == m # "none" /\ Form!HasSecrets(p)
           d0 == Form!Reopen(p, m, dropped, keeps)
           d == d0
<1>1. /\ p.secrets = {} \/ p.secrets # {}
      /\ p.settings.mechanism \in Mechanisms /\ keeps \in BOOLEAN /\ {} \in Fields
      /\ StoredMechanism(p.settings.protocol, p.settings.mechanism)
  BY HasSecretsIs DEF GoodProfile, Profiles, SettingsSet, Fields, Form!AllFields, Form!PlainAndStored
<1>2. m \in Mechanisms /\ OwnMechanism(p.settings.protocol, m)
  BY <1>1 DEF StoredMechanism, OwnMechanism, ShowsPlain, Form!Known, Form!NoneOrPlain, Mechanisms, Form!NatsMechanisms
<1>3. /\ GoodDraft(d) /\ d.protocol = p.settings.protocol /\ d.mechanism = m
      /\ d.choice = p.settings.choice
      /\ d.filled = p.settings.filled \ dropped
      /\ d.typed = {} /\ (d.stored <=> keeps) /\ ~d.clear
  <2> HIDE DEF m, dropped, keeps
  <2>1. Reopened(Form!Reopen(p, m, dropped, keeps), p, m, p.settings.filled \ dropped, keeps)
    BY <1>1, <1>2, ReopenIs
  <2>3. Reopened(d, p, m, p.settings.filled \ dropped, keeps)
    BY <2>1
  <2> HIDE DEF d
  <2> QED BY <2>3 DEF Reopened
<1>4. Form!toPulsarDraft(p) = d
  BY DEF Form!toPulsarDraft
<1> HIDE DEF d
<1>5. ASSUME Form!Valid(d), Form!Consistent(p)
      PROVE  Same(p, Form!applyCredentialsMode({p}, Form!toSubmission(d)))
  <2> DEFINE mechanism == d.mechanism
             left == Form!Unless("tls" \in d.filled, Form!TlsExtras)
             secrets == Form!Unless(~(d.mechanism # "none"), {"token"})
             mode == IF ~(d.mechanism # "none") THEN "clear" ELSE Form!ReplaceOnce(d, d.typed, Form!keepStored(d))
  <2>1. Form!toSubmission(d) = Form!Submit(d, mechanism, left, secrets, mode)
    BY <1>3 DEF Form!toSubmission, Form!pulsarSubmission
  <2>2. Form!keepStored(d) <=> keeps
    BY <1>3 DEF Form!keepStored
  <2>3. /\ mechanism \in Mechanisms /\ mode \in Modes
        /\ mode = "clear" => p.settings.mechanism = "none" /\ p.secrets = {}
        /\ mode # "clear" => mechanism = p.settings.mechanism
        /\ mode = "replace" => p.secrets = {}
    <3>1. mechanism = p.settings.mechanism
      BY <1>1, <1>3 DEF StoredMechanism, OwnMechanism, Form!Known
    <3>2. p.settings.mechanism = "none" => p.secrets = {}
      BY DEF GoodProfile, Anonymous, Form!KeepsEveryBlank
    <3> QED BY <1>1, <1>3, <2>2, <3>1, <3>2, HasSecretsIs DEF Form!ReplaceOnce, Modes
  <2>4. ExceptDefaults(d.filled \ left) = ExceptDefaults(p.settings.filled)
    BY <1>3 DEF GoodProfile, StoredFields, Form!Unless, ExceptDefaults
  <2>5. d \in Drafts
    BY <1>3 DEF GoodDraft
  <2> HIDE DEF mechanism, left, secrets, mode
  <2> QED BY <1>3, <2>1, <2>3, <2>4, <2>5, SavedAgain
<1> QED BY <1>3, <1>4, <1>5 DEF Reopens

LEMMA RabbitMQReopens ==
    ASSUME NEW p, GoodProfile(p), p.settings.protocol = "rabbitmq" PROVE Reopens(p, Form!toRabbitMQDraft(p))
<1> DEFINE m == "plain"
           dropped == Form!Unless("tls" \in p.settings.filled, {"tlsSkipVerify"})
           keeps == Form!HasSecrets(p)
           d0 == Form!Reopen(p, m, dropped, keeps)
           d == d0
<1>1. /\ p.secrets = {} \/ p.secrets # {}
      /\ p.settings.mechanism \in Mechanisms /\ keeps \in BOOLEAN /\ {} \in Fields
      /\ StoredMechanism(p.settings.protocol, p.settings.mechanism)
  BY HasSecretsIs DEF GoodProfile, Profiles, SettingsSet, Fields, Form!AllFields, Form!PlainAndStored
<1>2. m \in Mechanisms /\ OwnMechanism(p.settings.protocol, m)
  BY <1>1 DEF StoredMechanism, OwnMechanism, ShowsPlain, Form!Known, Form!NoneOrPlain, Mechanisms, Form!NatsMechanisms
<1>3. /\ GoodDraft(d) /\ d.protocol = p.settings.protocol /\ d.mechanism = m
      /\ d.choice = p.settings.choice
      /\ d.filled = p.settings.filled \ dropped
      /\ d.typed = {} /\ (d.stored <=> keeps) /\ ~d.clear
  <2> HIDE DEF m, dropped, keeps
  <2>1. Reopened(Form!Reopen(p, m, dropped, keeps), p, m, p.settings.filled \ dropped, keeps)
    BY <1>1, <1>2, ReopenIs
  <2>3. Reopened(d, p, m, p.settings.filled \ dropped, keeps)
    BY <2>1
  <2> HIDE DEF d
  <2> QED BY <2>3 DEF Reopened
<1>4. Form!toRabbitMQDraft(p) = d
  BY DEF Form!toRabbitMQDraft
<1> HIDE DEF d
<1>5. ASSUME Form!Valid(d), Form!Consistent(p)
      PROVE  Same(p, Form!applyCredentialsMode({p}, Form!toSubmission(d)))
  <2> DEFINE again == [d EXCEPT !.filled = @ \cup {"vhost"}]
             mechanism == "plain"
             left == Form!Unless("tls" \in d.filled, {"tlsSkipVerify"})
             secrets == Form!Login
             mode == Form!ReplaceOnce(d, d.typed, Form!keepStored(d))
  <2>1. Form!toSubmission(d) = Form!Submit(again, mechanism, left, secrets, mode)
    BY <1>3 DEF Form!toSubmission, Form!rabbitMQSubmission
  <2>2. Form!keepStored(d) <=> keeps
    BY <1>3 DEF Form!keepStored
  <2>3. /\ mechanism \in Mechanisms /\ mode \in Modes
        /\ mode = "clear" => p.settings.mechanism = "none" /\ p.secrets = {}
        /\ mode # "clear" => mechanism = p.settings.mechanism
        /\ mode = "replace" => p.secrets = {}
    <3>1. p.secrets # {}
      BY <1>3, <1>5, <2>2, HasSecretsIs DEF Form!Valid, Form!RabbitMQValid
    <3>2. p.settings.mechanism = "plain"
      BY <1>1, <3>1 DEF GoodProfile, Anonymous, Form!KeepsEveryBlank, StoredMechanism
    <3> QED BY <1>3, <2>2, <3>1, <3>2, HasSecretsIs DEF Form!ReplaceOnce, Modes, Mechanisms
  <2>4. ExceptDefaults(again.filled \ left) = ExceptDefaults(p.settings.filled)
    <3>1. d \in Drafts
      BY <1>3 DEF GoodDraft
    <3>2. again.filled = d.filled \cup {"vhost"}
      BY <3>1 DEF Drafts
    <3> QED BY <1>3, <3>2 DEF GoodProfile, StoredFields, Form!Unless, ExceptDefaults
  <2>5. d \in Drafts
    BY <1>3 DEF GoodDraft
  <2>6. d.filled \cup {"vhost"} \in Fields
    BY <2>5, DraftFields DEF Fields, Form!AllFields
  <2>7. again \in Drafts /\ again.protocol = p.settings.protocol /\ again.choice = p.settings.choice /\ again.typed = {}
    BY <1>3, <2>5, <2>6 DEF Drafts
  <2> HIDE DEF again
  <2> HIDE DEF mechanism, left, secrets, mode
  <2> QED BY <2>1, <2>3, <2>4, <2>7, SavedAgain
<1> QED BY <1>3, <1>4, <1>5 DEF Reopens

LEMMA RedisReopens ==
    ASSUME NEW p, GoodProfile(p), p.settings.protocol = "redis" PROVE Reopens(p, Form!toRedisDraft(p))
<1> DEFINE m == "none"
           dropped == Form!Unless(p.settings.choice = "sentinel", {"masterName"})
                        \cup Form!Unless(p.settings.choice # "cluster", {"db"})
                        \cup Form!Unless("tls" \in p.settings.filled, {"tlsSkipVerify"})
           keeps == Form!HasSecrets(p)
           d0 == Form!Reopen(p, m, dropped, keeps)
           d == d0
<1>1. /\ p.secrets = {} \/ p.secrets # {}
      /\ p.settings.mechanism \in Mechanisms /\ keeps \in BOOLEAN /\ {} \in Fields
      /\ StoredMechanism(p.settings.protocol, p.settings.mechanism)
  BY HasSecretsIs DEF GoodProfile, Profiles, SettingsSet, Fields, Form!AllFields, Form!PlainAndStored
<1>2. m \in Mechanisms /\ OwnMechanism(p.settings.protocol, m)
  BY <1>1 DEF StoredMechanism, OwnMechanism, ShowsPlain, Form!Known, Form!NoneOrPlain, Mechanisms, Form!NatsMechanisms
<1>3. /\ GoodDraft(d) /\ d.protocol = p.settings.protocol /\ d.mechanism = m
      /\ d.choice = p.settings.choice
      /\ d.filled = p.settings.filled \ dropped
      /\ d.typed = {} /\ (d.stored <=> keeps) /\ ~d.clear
  <2> HIDE DEF m, dropped, keeps
  <2>1. Reopened(Form!Reopen(p, m, dropped, keeps), p, m, p.settings.filled \ dropped, keeps)
    BY <1>1, <1>2, ReopenIs
  <2>3. Reopened(d, p, m, p.settings.filled \ dropped, keeps)
    BY <2>1
  <2> HIDE DEF d
  <2> QED BY <2>3 DEF Reopened
<1>4. Form!toRedisDraft(p) = d
  BY DEF Form!toRedisDraft
<1> HIDE DEF d
<1>5. ASSUME Form!Valid(d), Form!Consistent(p)
      PROVE  Same(p, Form!applyCredentialsMode({p}, Form!toSubmission(d)))
  <2> DEFINE mechanism == Form!Given(d, "plain")
             left == Form!Unless(d.choice = "sentinel", {"masterName"})
                        \cup Form!Unless(d.choice # "cluster", {"db"})
                        \cup Form!Unless("tls" \in d.filled, {"tlsSkipVerify"})
             secrets == Form!Login
             mode == Form!ReplaceOnce(d, d.typed, Form!keepStored(d))
  <2>1. Form!toSubmission(d) = Form!Submit(d, mechanism, left, secrets, mode)
    BY <1>3 DEF Form!toSubmission, Form!redisSubmission
  <2>2. Form!keepStored(d) <=> keeps
    BY <1>3 DEF Form!keepStored
  <2>3. /\ mechanism \in Mechanisms /\ mode \in Modes
        /\ mode = "clear" => p.settings.mechanism = "none" /\ p.secrets = {}
        /\ mode # "clear" => mechanism = p.settings.mechanism
        /\ mode = "replace" => p.secrets = {}
    BY <1>1, <1>3, <1>5, <2>2, HasSecretsIs DEF Form!PreserveBlank, Form!ReplaceOnce, Form!Given, Modes, Mechanisms, StoredMechanism, Form!Consistent, Form!DerivedMechanism, Form!PlainAndStored
  <2>4. ExceptDefaults(d.filled \ left) = ExceptDefaults(p.settings.filled)
    BY <1>3 DEF GoodProfile, StoredFields, Form!Unless, ExceptDefaults
  <2>5. d \in Drafts
    BY <1>3 DEF GoodDraft
  <2> HIDE DEF mechanism, left, secrets, mode
  <2> QED BY <1>3, <2>1, <2>3, <2>4, <2>5, SavedAgain
<1> QED BY <1>3, <1>4, <1>5 DEF Reopens

LEMMA MqttReopens ==
    ASSUME NEW p, GoodProfile(p), p.settings.protocol = "mqtt" PROVE Reopens(p, Form!toMqttDraft(p))
<1> DEFINE m == Form!Known(p.settings.mechanism, {"plain"})
           dropped == Form!Unless(Form!Encrypted(p.settings.choice), Form!TlsExtras)
                        \cup Form!Unless("v5" \in p.settings.filled, {"sessionExpiry"})
           keeps == Form!HasSecrets(p)
           d0 == Form!Reopen(p, m, dropped, keeps)
           d == [d0 EXCEPT !.filled = @ \cup {"wsPath"}]
<1>1. /\ p.secrets = {} \/ p.secrets # {}
      /\ p.settings.mechanism \in Mechanisms /\ keeps \in BOOLEAN /\ {"wsPath"} \in Fields
      /\ StoredMechanism(p.settings.protocol, p.settings.mechanism)
  BY HasSecretsIs DEF GoodProfile, Profiles, SettingsSet, Fields, Form!AllFields, Form!PlainAndStored
<1>2. m \in Mechanisms /\ OwnMechanism(p.settings.protocol, m)
  BY <1>1 DEF StoredMechanism, OwnMechanism, ShowsPlain, Form!Known, Form!NoneOrPlain, Mechanisms, Form!NatsMechanisms
<1>3. /\ GoodDraft(d) /\ d.protocol = p.settings.protocol /\ d.mechanism = m
      /\ d.choice = p.settings.choice
      /\ d.filled = (p.settings.filled \ dropped) \cup {"wsPath"}
      /\ d.typed = {} /\ (d.stored <=> keeps) /\ ~d.clear
  <2> HIDE DEF m, dropped, keeps
  <2>1. Reopened(Form!Reopen(p, m, dropped, keeps), p, m, p.settings.filled \ dropped, keeps)
    BY <1>1, <1>2, ReopenIs
  <2>3. Reopened(d, p, m, (p.settings.filled \ dropped) \cup {"wsPath"}, keeps)
    BY <1>1, <2>1, ReopenMore
  <2> HIDE DEF d
  <2> QED BY <2>3 DEF Reopened
<1>4. Form!toMqttDraft(p) = d
  BY DEF Form!toMqttDraft
<1> HIDE DEF d
<1>5. ASSUME Form!Valid(d), Form!Consistent(p)
      PROVE  Same(p, Form!applyCredentialsMode({p}, Form!toSubmission(d)))
  <2> DEFINE mechanism == d.mechanism
             left == Form!Unless(Form!WebSocket(d.choice), {"wsPath"})
                      \cup Form!Unless(Form!Encrypted(d.choice), Form!TlsExtras)
                      \cup Form!Unless("v5" \in d.filled, {"sessionExpiry"})
             secrets == Form!Unless(d.mechanism = "none", Form!Login)
                         \cup Form!Unless("managementUrl" \notin d.filled,
                                       {"managementKey", "managementSecret"})
             mode == Form!PreserveBlank(d)
  <2>1. Form!toSubmission(d) = Form!Submit(d, mechanism, left, secrets, mode)
    BY <1>3 DEF Form!toSubmission, Form!mqttSubmission
  <2>2. Form!keepStored(d) <=> keeps
    BY <1>3 DEF Form!keepStored
  <2>3. /\ mechanism \in Mechanisms /\ mode \in Modes
        /\ mode = "clear" => p.settings.mechanism = "none" /\ p.secrets = {}
        /\ mode # "clear" => mechanism = p.settings.mechanism
        /\ mode = "replace" => p.secrets = {}
    BY <1>1, <1>2, <1>3, <2>2, HasSecretsIs DEF Form!PreserveBlank, Modes, StoredMechanism, OwnMechanism, ShowsPlain, Form!Known, Form!NoneOrPlain, Form!NatsMechanisms
  <2>4. ExceptDefaults(d.filled \ left) = ExceptDefaults(p.settings.filled)
    <3>1. /\ Form!Encrypted(p.settings.choice) \/ p.settings.filled \cap Form!TlsExtras = {}
          /\ "v5" \in p.settings.filled \/ "sessionExpiry" \notin p.settings.filled
      BY DEF GoodProfile, StoredFields
    <3> QED BY <1>3, <3>1 DEF Form!Unless, ExceptDefaults, Form!TlsExtras
  <2>5. d \in Drafts
    BY <1>3 DEF GoodDraft
  <2> HIDE DEF mechanism, left, secrets, mode
  <2> QED BY <1>3, <2>1, <2>3, <2>4, <2>5, SavedAgain
<1> QED BY <1>3, <1>4, <1>5 DEF Reopens

LEMMA NatsReopens ==
    ASSUME NEW p, GoodProfile(p), p.settings.protocol = "nats" PROVE Reopens(p, Form!toNatsDraft(p))
<1> DEFINE m == Form!Known(p.settings.mechanism, Form!NatsMechanisms)
           dropped == Form!Unless("tls" \in p.settings.filled \/ m = "mtls", Form!TlsExtras)
                        \cup (Form!NatsOwnFiles \ Form!NatsFiles(m))
           keeps == Form!HasSecrets(p)
           d0 == Form!Reopen(p, m, dropped, keeps)
           d == d0
<1>1. /\ p.secrets = {} \/ p.secrets # {}
      /\ p.settings.mechanism \in Mechanisms /\ keeps \in BOOLEAN /\ {} \in Fields
      /\ StoredMechanism(p.settings.protocol, p.settings.mechanism)
  BY HasSecretsIs DEF GoodProfile, Profiles, SettingsSet, Fields, Form!AllFields, Form!PlainAndStored
<1>2. m \in Mechanisms /\ OwnMechanism(p.settings.protocol, m)
  BY <1>1 DEF StoredMechanism, OwnMechanism, ShowsPlain, Form!Known, Form!NoneOrPlain, Mechanisms, Form!NatsMechanisms
<1>3. /\ GoodDraft(d) /\ d.protocol = p.settings.protocol /\ d.mechanism = m
      /\ d.choice = p.settings.choice
      /\ d.filled = p.settings.filled \ dropped
      /\ d.typed = {} /\ (d.stored <=> keeps) /\ ~d.clear
  <2> HIDE DEF m, dropped, keeps
  <2>1. Reopened(Form!Reopen(p, m, dropped, keeps), p, m, p.settings.filled \ dropped, keeps)
    BY <1>1, <1>2, ReopenIs
  <2>3. Reopened(d, p, m, p.settings.filled \ dropped, keeps)
    BY <2>1
  <2> HIDE DEF d
  <2> QED BY <2>3 DEF Reopened
<1>4. Form!toNatsDraft(p) = d
  BY DEF Form!toNatsDraft
<1> HIDE DEF d
<1>5. ASSUME Form!Valid(d), Form!Consistent(p)
      PROVE  Same(p, Form!applyCredentialsMode({p}, Form!toSubmission(d)))
  <2> DEFINE mechanism == d.mechanism
             left == Form!Unless("tls" \in d.filled \/ d.mechanism = "mtls", Form!TlsExtras)
                      \cup (Form!NatsOwnFiles \ Form!NatsFiles(d.mechanism))
             secrets == Form!NatsSecrets(d.mechanism) \cup {"systemUser", "systemPassword"}
             mode == Form!PreserveBlank(d)
  <2>1. Form!toSubmission(d) = Form!Submit(d, mechanism, left, secrets, mode)
    BY <1>3 DEF Form!toSubmission, Form!natsSubmission
  <2>2. Form!keepStored(d) <=> keeps
    BY <1>3 DEF Form!keepStored
  <2>3. /\ mechanism \in Mechanisms /\ mode \in Modes
        /\ mode = "clear" => p.settings.mechanism = "none" /\ p.secrets = {}
        /\ mode # "clear" => mechanism = p.settings.mechanism
        /\ mode = "replace" => p.secrets = {}
    BY <1>1, <1>2, <1>3, <2>2, HasSecretsIs DEF Form!PreserveBlank, Modes, StoredMechanism, OwnMechanism, ShowsPlain, Form!Known, Form!NoneOrPlain, Form!NatsMechanisms
  <2>4. ExceptDefaults(d.filled \ left) = ExceptDefaults(p.settings.filled)
    <3>1. m = p.settings.mechanism
      BY <1>1 DEF StoredMechanism, OwnMechanism, Form!Known
    <3>2. /\ p.settings.filled \cap (Form!NatsOwnFiles \ Form!NatsFiles(m)) = {}
          /\ "tls" \in p.settings.filled \/ m = "mtls" \/ p.settings.filled \cap Form!TlsExtras = {}
      BY <1>5, <3>1 DEF GoodProfile, StoredFields, Form!Consistent
    <3>3. "tls" \notin Form!NatsOwnFiles
      BY FormTables
    <3>4. d.filled = p.settings.filled
      BY <1>3, <3>2 DEF Form!Unless
    <3>5. d.filled \ left = p.settings.filled
      BY <1>3, <3>2, <3>4 DEF Form!Unless
    <3> HIDE DEF left
    <3> QED BY <3>5
  <2>5. d \in Drafts
    BY <1>3 DEF GoodDraft
  <2> HIDE DEF mechanism, left, secrets, mode
  <2> QED BY <1>3, <2>1, <2>3, <2>4, <2>5, SavedAgain
<1> QED BY <1>3, <1>4, <1>5 DEF Reopens

LEMMA ActiveMQReopens ==
    ASSUME NEW p, GoodProfile(p), p.settings.protocol = "activemq" PROVE Reopens(p, Form!toActiveMQDraft(p))
<1> DEFINE m == Form!NoneOrPlain(p.settings.mechanism)
           dropped == {}
           keeps == Form!HasSecrets(p)
           d0 == Form!Reopen(p, m, dropped, keeps)
           d == d0
<1>1. /\ p.secrets = {} \/ p.secrets # {}
      /\ p.settings.mechanism \in Mechanisms /\ keeps \in BOOLEAN /\ {} \in Fields
      /\ StoredMechanism(p.settings.protocol, p.settings.mechanism)
  BY HasSecretsIs DEF GoodProfile, Profiles, SettingsSet, Fields, Form!AllFields, Form!PlainAndStored
<1>2. m \in Mechanisms /\ OwnMechanism(p.settings.protocol, m)
  BY <1>1 DEF StoredMechanism, OwnMechanism, ShowsPlain, Form!Known, Form!NoneOrPlain, Mechanisms, Form!NatsMechanisms
<1>3. /\ GoodDraft(d) /\ d.protocol = p.settings.protocol /\ d.mechanism = m
      /\ d.choice = p.settings.choice
      /\ d.filled = p.settings.filled \ dropped
      /\ d.typed = {} /\ (d.stored <=> keeps) /\ ~d.clear
  <2> HIDE DEF m, dropped, keeps
  <2>1. Reopened(Form!Reopen(p, m, dropped, keeps), p, m, p.settings.filled \ dropped, keeps)
    BY <1>1, <1>2, ReopenIs
  <2>3. Reopened(d, p, m, p.settings.filled \ dropped, keeps)
    BY <2>1
  <2> HIDE DEF d
  <2> QED BY <2>3 DEF Reopened
<1>4. Form!toActiveMQDraft(p) = d
  BY DEF Form!toActiveMQDraft
<1> HIDE DEF d
<1>5. ASSUME Form!Valid(d), Form!Consistent(p)
      PROVE  Same(p, Form!applyCredentialsMode({p}, Form!toSubmission(d)))
  <2> DEFINE mechanism == d.mechanism
             left == {}
             secrets == Form!Unless(d.mechanism # "plain", Form!Login)
                         \cup Form!Unless("amqpUrl" \notin d.filled,
                                       {"amqpUsername", "amqpPassword"})
             mode == Form!PreserveBlank(d)
  <2>1. Form!toSubmission(d) = Form!Submit(d, mechanism, left, secrets, mode)
    BY <1>3 DEF Form!toSubmission, Form!activeMQSubmission
  <2>2. Form!keepStored(d) <=> keeps
    BY <1>3 DEF Form!keepStored
  <2>3. /\ mechanism \in Mechanisms /\ mode \in Modes
        /\ mode = "clear" => p.settings.mechanism = "none" /\ p.secrets = {}
        /\ mode # "clear" => mechanism = p.settings.mechanism
        /\ mode = "replace" => p.secrets = {}
    BY <1>1, <1>2, <1>3, <2>2, HasSecretsIs DEF Form!PreserveBlank, Modes, StoredMechanism, OwnMechanism, ShowsPlain, Form!Known, Form!NoneOrPlain, Form!NatsMechanisms
  <2>4. ExceptDefaults(d.filled \ left) = ExceptDefaults(p.settings.filled)
    BY <1>3 DEF ExceptDefaults
  <2>5. d \in Drafts
    BY <1>3 DEF GoodDraft
  <2> HIDE DEF mechanism, left, secrets, mode
  <2> QED BY <1>3, <2>1, <2>3, <2>4, <2>5, SavedAgain
<1> QED BY <1>3, <1>4, <1>5 DEF Reopens

LEMMA IbmMqReopens ==
    ASSUME NEW p, GoodProfile(p), p.settings.protocol = "ibmmq" PROVE Reopens(p, Form!toIbmMqDraft(p))
<1> DEFINE m == Form!NoneOrPlain(p.settings.mechanism)
           dropped == {}
           keeps == Form!HasSecrets(p)
           d0 == Form!Reopen(p, m, dropped, keeps)
           d == d0
<1>1. /\ p.secrets = {} \/ p.secrets # {}
      /\ p.settings.mechanism \in Mechanisms /\ keeps \in BOOLEAN /\ {} \in Fields
      /\ StoredMechanism(p.settings.protocol, p.settings.mechanism)
  BY HasSecretsIs DEF GoodProfile, Profiles, SettingsSet, Fields, Form!AllFields, Form!PlainAndStored
<1>2. m \in Mechanisms /\ OwnMechanism(p.settings.protocol, m)
  BY <1>1 DEF StoredMechanism, OwnMechanism, ShowsPlain, Form!Known, Form!NoneOrPlain, Mechanisms, Form!NatsMechanisms
<1>3. /\ GoodDraft(d) /\ d.protocol = p.settings.protocol /\ d.mechanism = m
      /\ d.choice = p.settings.choice
      /\ d.filled = p.settings.filled \ dropped
      /\ d.typed = {} /\ (d.stored <=> keeps) /\ ~d.clear
  <2> HIDE DEF m, dropped, keeps
  <2>1. Reopened(Form!Reopen(p, m, dropped, keeps), p, m, p.settings.filled \ dropped, keeps)
    BY <1>1, <1>2, ReopenIs
  <2>3. Reopened(d, p, m, p.settings.filled \ dropped, keeps)
    BY <2>1
  <2> HIDE DEF d
  <2> QED BY <2>3 DEF Reopened
<1>4. Form!toIbmMqDraft(p) = d
  BY DEF Form!toIbmMqDraft
<1> HIDE DEF d
<1>5. ASSUME Form!Valid(d), Form!Consistent(p)
      PROVE  Same(p, Form!applyCredentialsMode({p}, Form!toSubmission(d)))
  <2> DEFINE mechanism == d.mechanism
             left == {}
             secrets == Form!Unless(d.mechanism # "plain", Form!Login \cup Form!Messaging)
             mode == Form!PreserveBlank(d)
  <2>1. Form!toSubmission(d) = Form!Submit(d, mechanism, left, secrets, mode)
    BY <1>3 DEF Form!toSubmission, Form!ibmMqSubmission
  <2>2. Form!keepStored(d) <=> keeps
    BY <1>3 DEF Form!keepStored
  <2>3. /\ mechanism \in Mechanisms /\ mode \in Modes
        /\ mode = "clear" => p.settings.mechanism = "none" /\ p.secrets = {}
        /\ mode # "clear" => mechanism = p.settings.mechanism
        /\ mode = "replace" => p.secrets = {}
    BY <1>1, <1>2, <1>3, <2>2, HasSecretsIs DEF Form!PreserveBlank, Modes, StoredMechanism, OwnMechanism, ShowsPlain, Form!Known, Form!NoneOrPlain, Form!NatsMechanisms
  <2>4. ExceptDefaults(d.filled \ left) = ExceptDefaults(p.settings.filled)
    BY <1>3 DEF ExceptDefaults
  <2>5. d \in Drafts
    BY <1>3 DEF GoodDraft
  <2> HIDE DEF mechanism, left, secrets, mode
  <2> QED BY <1>3, <2>1, <2>3, <2>4, <2>5, SavedAgain
<1> QED BY <1>3, <1>4, <1>5 DEF Reopens

LEMMA SolaceReopens ==
    ASSUME NEW p, GoodProfile(p), p.settings.protocol = "solace" PROVE Reopens(p, Form!toSolaceDraft(p))
<1> DEFINE m == Form!NoneOrPlain(p.settings.mechanism)
           dropped == {}
           keeps == Form!HasSecrets(p)
           d0 == Form!Reopen(p, m, dropped, keeps)
           d == d0
<1>1. /\ p.secrets = {} \/ p.secrets # {}
      /\ p.settings.mechanism \in Mechanisms /\ keeps \in BOOLEAN /\ {} \in Fields
      /\ StoredMechanism(p.settings.protocol, p.settings.mechanism)
  BY HasSecretsIs DEF GoodProfile, Profiles, SettingsSet, Fields, Form!AllFields, Form!PlainAndStored
<1>2. m \in Mechanisms /\ OwnMechanism(p.settings.protocol, m)
  BY <1>1 DEF StoredMechanism, OwnMechanism, ShowsPlain, Form!Known, Form!NoneOrPlain, Mechanisms, Form!NatsMechanisms
<1>3. /\ GoodDraft(d) /\ d.protocol = p.settings.protocol /\ d.mechanism = m
      /\ d.choice = p.settings.choice
      /\ d.filled = p.settings.filled \ dropped
      /\ d.typed = {} /\ (d.stored <=> keeps) /\ ~d.clear
  <2> HIDE DEF m, dropped, keeps
  <2>1. Reopened(Form!Reopen(p, m, dropped, keeps), p, m, p.settings.filled \ dropped, keeps)
    BY <1>1, <1>2, ReopenIs
  <2>3. Reopened(d, p, m, p.settings.filled \ dropped, keeps)
    BY <2>1
  <2> HIDE DEF d
  <2> QED BY <2>3 DEF Reopened
<1>4. Form!toSolaceDraft(p) = d
  BY DEF Form!toSolaceDraft
<1> HIDE DEF d
<1>5. ASSUME Form!Valid(d), Form!Consistent(p)
      PROVE  Same(p, Form!applyCredentialsMode({p}, Form!toSubmission(d)))
  <2> DEFINE mechanism == d.mechanism
             left == {}
             secrets == Form!Rest \cup Form!Unless(d.mechanism # "plain", Form!Login)
             mode == Form!PreserveBlank(d)
  <2>1. Form!toSubmission(d) = Form!Submit(d, mechanism, left, secrets, mode)
    BY <1>3 DEF Form!toSubmission, Form!solaceSubmission
  <2>2. Form!keepStored(d) <=> keeps
    BY <1>3 DEF Form!keepStored
  <2>3. /\ mechanism \in Mechanisms /\ mode \in Modes
        /\ mode = "clear" => p.settings.mechanism = "none" /\ p.secrets = {}
        /\ mode # "clear" => mechanism = p.settings.mechanism
        /\ mode = "replace" => p.secrets = {}
    BY <1>1, <1>2, <1>3, <2>2, HasSecretsIs DEF Form!PreserveBlank, Modes, StoredMechanism, OwnMechanism, ShowsPlain, Form!Known, Form!NoneOrPlain, Form!NatsMechanisms
  <2>4. ExceptDefaults(d.filled \ left) = ExceptDefaults(p.settings.filled)
    BY <1>3 DEF ExceptDefaults
  <2>5. d \in Drafts
    BY <1>3 DEF GoodDraft
  <2> HIDE DEF mechanism, left, secrets, mode
  <2> QED BY <1>3, <2>1, <2>3, <2>4, <2>5, SavedAgain
<1> QED BY <1>3, <1>4, <1>5 DEF Reopens

LEMMA NsqReopens ==
    ASSUME NEW p, GoodProfile(p), p.settings.protocol = "nsq" PROVE Reopens(p, Form!toNsqDraft(p))
<1> DEFINE m == "none"
           dropped == {}
           keeps == FALSE
           d0 == Form!Reopen(p, m, dropped, keeps)
           d == d0
<1>1. /\ p.secrets = {} \/ p.secrets # {}
      /\ p.settings.mechanism \in Mechanisms /\ keeps \in BOOLEAN /\ {} \in Fields
      /\ StoredMechanism(p.settings.protocol, p.settings.mechanism)
  BY HasSecretsIs DEF GoodProfile, Profiles, SettingsSet, Fields, Form!AllFields, Form!PlainAndStored
<1>2. m \in Mechanisms /\ OwnMechanism(p.settings.protocol, m)
  BY <1>1 DEF StoredMechanism, OwnMechanism, ShowsPlain, Form!Known, Form!NoneOrPlain, Mechanisms, Form!NatsMechanisms
<1>3. /\ GoodDraft(d) /\ d.protocol = p.settings.protocol /\ d.mechanism = m
      /\ d.choice = p.settings.choice
      /\ d.filled = p.settings.filled \ dropped
      /\ d.typed = {} /\ (d.stored <=> keeps) /\ ~d.clear
  <2> HIDE DEF m, dropped, keeps
  <2>1. Reopened(Form!Reopen(p, m, dropped, keeps), p, m, p.settings.filled \ dropped, keeps)
    BY <1>1, <1>2, ReopenIs
  <2>3. Reopened(d, p, m, p.settings.filled \ dropped, keeps)
    BY <2>1
  <2> HIDE DEF d
  <2> QED BY <2>3 DEF Reopened
<1>4. Form!toNsqDraft(p) = d
  BY DEF Form!toNsqDraft
<1> HIDE DEF d
<1>5. ASSUME Form!Valid(d), Form!Consistent(p)
      PROVE  Same(p, Form!applyCredentialsMode({p}, Form!toSubmission(d)))
  <2> DEFINE mechanism == "none"
             left == {}
             secrets == {}
             mode == "replace"
  <2>1. Form!toSubmission(d) = Form!Submit(d, mechanism, left, secrets, mode)
    BY <1>3 DEF Form!toSubmission, Form!nsqSubmission
  <2>2. Form!keepStored(d) <=> keeps
    BY <1>3 DEF Form!keepStored
  <2>3. /\ mechanism \in Mechanisms /\ mode \in Modes
        /\ mode = "clear" => p.settings.mechanism = "none" /\ p.secrets = {}
        /\ mode # "clear" => mechanism = p.settings.mechanism
        /\ mode = "replace" => p.secrets = {}
    BY <1>1 DEF GoodProfile, Anonymous, Form!KeepsEveryBlank, StoredMechanism, Modes, Mechanisms
  <2>4. ExceptDefaults(d.filled \ left) = ExceptDefaults(p.settings.filled)
    BY <1>3 DEF ExceptDefaults
  <2>5. d \in Drafts
    BY <1>3 DEF GoodDraft
  <2> HIDE DEF mechanism, left, secrets, mode
  <2> QED BY <1>3, <2>1, <2>3, <2>4, <2>5, SavedAgain
<1> QED BY <1>3, <1>4, <1>5 DEF Reopens

LEMMA RocketMQReopens ==
    ASSUME NEW p, GoodProfile(p), p.settings.protocol = "rocketmq" PROVE Reopens(p, Form!toRocketMQDraft(p))
<1> DEFINE m == "none"
           dropped == {}
           keeps == Form!HasSecrets(p)
           d0 == Form!Reopen(p, m, dropped, keeps)
           d == d0
<1>1. /\ p.secrets = {} \/ p.secrets # {}
      /\ p.settings.mechanism \in Mechanisms /\ keeps \in BOOLEAN /\ {} \in Fields
      /\ StoredMechanism(p.settings.protocol, p.settings.mechanism)
  BY HasSecretsIs DEF GoodProfile, Profiles, SettingsSet, Fields, Form!AllFields, Form!PlainAndStored
<1>2. m \in Mechanisms /\ OwnMechanism(p.settings.protocol, m)
  BY <1>1 DEF StoredMechanism, OwnMechanism, ShowsPlain, Form!Known, Form!NoneOrPlain, Mechanisms, Form!NatsMechanisms
<1>3. /\ GoodDraft(d) /\ d.protocol = p.settings.protocol /\ d.mechanism = m
      /\ d.choice = p.settings.choice
      /\ d.filled = p.settings.filled \ dropped
      /\ d.typed = {} /\ (d.stored <=> keeps) /\ ~d.clear
  <2> HIDE DEF m, dropped, keeps
  <2>1. Reopened(Form!Reopen(p, m, dropped, keeps), p, m, p.settings.filled \ dropped, keeps)
    BY <1>1, <1>2, ReopenIs
  <2>3. Reopened(d, p, m, p.settings.filled \ dropped, keeps)
    BY <2>1
  <2> HIDE DEF d
  <2> QED BY <2>3 DEF Reopened
<1>4. Form!toRocketMQDraft(p) = d
  BY DEF Form!toRocketMQDraft
<1> HIDE DEF d
<1>5. ASSUME Form!Valid(d), Form!Consistent(p)
      PROVE  Same(p, Form!applyCredentialsMode({p}, Form!toSubmission(d)))
  <2> DEFINE mechanism == Form!Given(d, "acl")
             left == {}
             secrets == {"accessKey", "secretKey"}
             mode == Form!PreserveBlank(d)
  <2>1. Form!toSubmission(d) = Form!Submit(d, mechanism, left, secrets, mode)
    BY <1>3 DEF Form!toSubmission, Form!rocketMQSubmission
  <2>2. Form!keepStored(d) <=> keeps
    BY <1>3 DEF Form!keepStored
  <2>3. /\ mechanism \in Mechanisms /\ mode \in Modes
        /\ mode = "clear" => p.settings.mechanism = "none" /\ p.secrets = {}
        /\ mode # "clear" => mechanism = p.settings.mechanism
        /\ mode = "replace" => p.secrets = {}
    BY <1>1, <1>3, <1>5, <2>2, HasSecretsIs DEF Form!PreserveBlank, Form!ReplaceOnce, Form!Given, Modes, Mechanisms, StoredMechanism, Form!Consistent, Form!DerivedMechanism, Form!PlainAndStored
  <2>4. ExceptDefaults(d.filled \ left) = ExceptDefaults(p.settings.filled)
    BY <1>3 DEF ExceptDefaults
  <2>5. d \in Drafts
    BY <1>3 DEF GoodDraft
  <2> HIDE DEF mechanism, left, secrets, mode
  <2> QED BY <1>3, <2>1, <2>3, <2>4, <2>5, SavedAgain
<1> QED BY <1>3, <1>4, <1>5 DEF Reopens

LEMMA SqsReopens ==
    ASSUME NEW p, GoodProfile(p), p.settings.protocol = "sqs" PROVE Reopens(p, Form!toSqsDraft(p))
<1> DEFINE m == "none"
           dropped == {}
           keeps == Form!PlainAndStored(p)
           d0 == Form!Reopen(p, m, dropped, keeps)
           d == d0
<1>1. /\ p.secrets = {} \/ p.secrets # {}
      /\ p.settings.mechanism \in Mechanisms /\ keeps \in BOOLEAN /\ {} \in Fields
      /\ StoredMechanism(p.settings.protocol, p.settings.mechanism)
  BY HasSecretsIs DEF GoodProfile, Profiles, SettingsSet, Fields, Form!AllFields, Form!PlainAndStored
<1>2. m \in Mechanisms /\ OwnMechanism(p.settings.protocol, m)
  BY <1>1 DEF StoredMechanism, OwnMechanism, ShowsPlain, Form!Known, Form!NoneOrPlain, Mechanisms, Form!NatsMechanisms
<1>3. /\ GoodDraft(d) /\ d.protocol = p.settings.protocol /\ d.mechanism = m
      /\ d.choice = p.settings.choice
      /\ d.filled = p.settings.filled \ dropped
      /\ d.typed = {} /\ (d.stored <=> keeps) /\ ~d.clear
  <2> HIDE DEF m, dropped, keeps
  <2>1. Reopened(Form!Reopen(p, m, dropped, keeps), p, m, p.settings.filled \ dropped, keeps)
    BY <1>1, <1>2, ReopenIs
  <2>3. Reopened(d, p, m, p.settings.filled \ dropped, keeps)
    BY <2>1
  <2> HIDE DEF d
  <2> QED BY <2>3 DEF Reopened
<1>4. Form!toSqsDraft(p) = d
  BY DEF Form!toSqsDraft
<1> HIDE DEF d
<1>5. ASSUME Form!Valid(d), Form!Consistent(p)
      PROVE  Same(p, Form!applyCredentialsMode({p}, Form!toSubmission(d)))
  <2> DEFINE mechanism == Form!Given(d, "plain")
             left == {}
             secrets == Form!AwsKeys
             mode == Form!PreserveBlank(d)
  <2>1. Form!toSubmission(d) = Form!Submit(d, mechanism, left, secrets, mode)
    BY <1>3 DEF Form!toSubmission, Form!sqsSubmission
  <2>2. Form!keepStored(d) <=> keeps
    BY <1>3 DEF Form!keepStored
  <2>3. /\ mechanism \in Mechanisms /\ mode \in Modes
        /\ mode = "clear" => p.settings.mechanism = "none" /\ p.secrets = {}
        /\ mode # "clear" => mechanism = p.settings.mechanism
        /\ mode = "replace" => p.secrets = {}
    BY <1>1, <1>3, <1>5, <2>2, HasSecretsIs DEF Form!PreserveBlank, Form!ReplaceOnce, Form!Given, Modes, Mechanisms, StoredMechanism, Form!Consistent, Form!DerivedMechanism, Form!PlainAndStored
  <2>4. ExceptDefaults(d.filled \ left) = ExceptDefaults(p.settings.filled)
    BY <1>3 DEF ExceptDefaults
  <2>5. d \in Drafts
    BY <1>3 DEF GoodDraft
  <2> HIDE DEF mechanism, left, secrets, mode
  <2> QED BY <1>3, <2>1, <2>3, <2>4, <2>5, SavedAgain
<1> QED BY <1>3, <1>4, <1>5 DEF Reopens

LEMMA GooglePubSubReopens ==
    ASSUME NEW p, GoodProfile(p), p.settings.protocol = "google-pubsub" PROVE Reopens(p, Form!toGooglePubSubDraft(p))
<1> DEFINE m == "none"
           dropped == {}
           keeps == Form!PlainAndStored(p)
           d0 == Form!Reopen(p, m, dropped, keeps)
           d == d0
<1>1. /\ p.secrets = {} \/ p.secrets # {}
      /\ p.settings.mechanism \in Mechanisms /\ keeps \in BOOLEAN /\ {} \in Fields
      /\ StoredMechanism(p.settings.protocol, p.settings.mechanism)
  BY HasSecretsIs DEF GoodProfile, Profiles, SettingsSet, Fields, Form!AllFields, Form!PlainAndStored
<1>2. m \in Mechanisms /\ OwnMechanism(p.settings.protocol, m)
  BY <1>1 DEF StoredMechanism, OwnMechanism, ShowsPlain, Form!Known, Form!NoneOrPlain, Mechanisms, Form!NatsMechanisms
<1>3. /\ GoodDraft(d) /\ d.protocol = p.settings.protocol /\ d.mechanism = m
      /\ d.choice = p.settings.choice
      /\ d.filled = p.settings.filled \ dropped
      /\ d.typed = {} /\ (d.stored <=> keeps) /\ ~d.clear
  <2> HIDE DEF m, dropped, keeps
  <2>1. Reopened(Form!Reopen(p, m, dropped, keeps), p, m, p.settings.filled \ dropped, keeps)
    BY <1>1, <1>2, ReopenIs
  <2>3. Reopened(d, p, m, p.settings.filled \ dropped, keeps)
    BY <2>1
  <2> HIDE DEF d
  <2> QED BY <2>3 DEF Reopened
<1>4. Form!toGooglePubSubDraft(p) = d
  BY DEF Form!toGooglePubSubDraft
<1> HIDE DEF d
<1>5. ASSUME Form!Valid(d), Form!Consistent(p)
      PROVE  Same(p, Form!applyCredentialsMode({p}, Form!toSubmission(d)))
  <2> DEFINE mechanism == Form!Given(d, "plain")
             left == {}
             secrets == {"credentialsJson"}
             mode == Form!PreserveBlank(d)
  <2>1. Form!toSubmission(d) = Form!Submit(d, mechanism, left, secrets, mode)
    BY <1>3 DEF Form!toSubmission, Form!googlePubSubSubmission
  <2>2. Form!keepStored(d) <=> keeps
    BY <1>3 DEF Form!keepStored
  <2>3. /\ mechanism \in Mechanisms /\ mode \in Modes
        /\ mode = "clear" => p.settings.mechanism = "none" /\ p.secrets = {}
        /\ mode # "clear" => mechanism = p.settings.mechanism
        /\ mode = "replace" => p.secrets = {}
    BY <1>1, <1>3, <1>5, <2>2, HasSecretsIs DEF Form!PreserveBlank, Form!ReplaceOnce, Form!Given, Modes, Mechanisms, StoredMechanism, Form!Consistent, Form!DerivedMechanism, Form!PlainAndStored
  <2>4. ExceptDefaults(d.filled \ left) = ExceptDefaults(p.settings.filled)
    BY <1>3 DEF ExceptDefaults
  <2>5. d \in Drafts
    BY <1>3 DEF GoodDraft
  <2> HIDE DEF mechanism, left, secrets, mode
  <2> QED BY <1>3, <2>1, <2>3, <2>4, <2>5, SavedAgain
<1> QED BY <1>3, <1>4, <1>5 DEF Reopens

LEMMA KinesisReopens ==
    ASSUME NEW p, GoodProfile(p), p.settings.protocol = "kinesis" PROVE Reopens(p, Form!toKinesisDraft(p))
<1> DEFINE m == "none"
           dropped == {}
           keeps == Form!PlainAndStored(p)
           d0 == Form!Reopen(p, m, dropped, keeps)
           d == d0
<1>1. /\ p.secrets = {} \/ p.secrets # {}
      /\ p.settings.mechanism \in Mechanisms /\ keeps \in BOOLEAN /\ {} \in Fields
      /\ StoredMechanism(p.settings.protocol, p.settings.mechanism)
  BY HasSecretsIs DEF GoodProfile, Profiles, SettingsSet, Fields, Form!AllFields, Form!PlainAndStored
<1>2. m \in Mechanisms /\ OwnMechanism(p.settings.protocol, m)
  BY <1>1 DEF StoredMechanism, OwnMechanism, ShowsPlain, Form!Known, Form!NoneOrPlain, Mechanisms, Form!NatsMechanisms
<1>3. /\ GoodDraft(d) /\ d.protocol = p.settings.protocol /\ d.mechanism = m
      /\ d.choice = p.settings.choice
      /\ d.filled = p.settings.filled \ dropped
      /\ d.typed = {} /\ (d.stored <=> keeps) /\ ~d.clear
  <2> HIDE DEF m, dropped, keeps
  <2>1. Reopened(Form!Reopen(p, m, dropped, keeps), p, m, p.settings.filled \ dropped, keeps)
    BY <1>1, <1>2, ReopenIs
  <2>3. Reopened(d, p, m, p.settings.filled \ dropped, keeps)
    BY <2>1
  <2> HIDE DEF d
  <2> QED BY <2>3 DEF Reopened
<1>4. Form!toKinesisDraft(p) = d
  BY DEF Form!toKinesisDraft
<1> HIDE DEF d
<1>5. ASSUME Form!Valid(d), Form!Consistent(p)
      PROVE  Same(p, Form!applyCredentialsMode({p}, Form!toSubmission(d)))
  <2> DEFINE mechanism == Form!Given(d, "plain")
             left == {}
             secrets == Form!AwsKeys
             mode == Form!PreserveBlank(d)
  <2>1. Form!toSubmission(d) = Form!Submit(d, mechanism, left, secrets, mode)
    BY <1>3 DEF Form!toSubmission, Form!kinesisSubmission
  <2>2. Form!keepStored(d) <=> keeps
    BY <1>3 DEF Form!keepStored
  <2>3. /\ mechanism \in Mechanisms /\ mode \in Modes
        /\ mode = "clear" => p.settings.mechanism = "none" /\ p.secrets = {}
        /\ mode # "clear" => mechanism = p.settings.mechanism
        /\ mode = "replace" => p.secrets = {}
    BY <1>1, <1>3, <1>5, <2>2, HasSecretsIs DEF Form!PreserveBlank, Form!ReplaceOnce, Form!Given, Modes, Mechanisms, StoredMechanism, Form!Consistent, Form!DerivedMechanism, Form!PlainAndStored
  <2>4. ExceptDefaults(d.filled \ left) = ExceptDefaults(p.settings.filled)
    BY <1>3 DEF ExceptDefaults
  <2>5. d \in Drafts
    BY <1>3 DEF GoodDraft
  <2> HIDE DEF mechanism, left, secrets, mode
  <2> QED BY <1>3, <2>1, <2>3, <2>4, <2>5, SavedAgain
<1> QED BY <1>3, <1>4, <1>5 DEF Reopens

LEMMA AzureServiceBusReopens ==
    ASSUME NEW p, GoodProfile(p), p.settings.protocol = "azure-servicebus" PROVE Reopens(p, Form!toAzureServiceBusDraft(p))
<1> DEFINE m == "none"
           dropped == {}
           keeps == Form!PlainAndStored(p)
           d0 == Form!Reopen(p, m, dropped, keeps)
           d == [d0 EXCEPT !.filled = @ \cup {"keyName"}]
<1>1. /\ p.secrets = {} \/ p.secrets # {}
      /\ p.settings.mechanism \in Mechanisms /\ keeps \in BOOLEAN /\ {"keyName"} \in Fields
      /\ StoredMechanism(p.settings.protocol, p.settings.mechanism)
  BY HasSecretsIs DEF GoodProfile, Profiles, SettingsSet, Fields, Form!AllFields, Form!PlainAndStored
<1>2. m \in Mechanisms /\ OwnMechanism(p.settings.protocol, m)
  BY <1>1 DEF StoredMechanism, OwnMechanism, ShowsPlain, Form!Known, Form!NoneOrPlain, Mechanisms, Form!NatsMechanisms
<1>3. /\ GoodDraft(d) /\ d.protocol = p.settings.protocol /\ d.mechanism = m
      /\ d.choice = p.settings.choice
      /\ d.filled = (p.settings.filled \ dropped) \cup {"keyName"}
      /\ d.typed = {} /\ (d.stored <=> keeps) /\ ~d.clear
  <2> HIDE DEF m, dropped, keeps
  <2>1. Reopened(Form!Reopen(p, m, dropped, keeps), p, m, p.settings.filled \ dropped, keeps)
    BY <1>1, <1>2, ReopenIs
  <2>3. Reopened(d, p, m, (p.settings.filled \ dropped) \cup {"keyName"}, keeps)
    BY <1>1, <2>1, ReopenMore
  <2> HIDE DEF d
  <2> QED BY <2>3 DEF Reopened
<1>4. Form!toAzureServiceBusDraft(p) = d
  BY DEF Form!toAzureServiceBusDraft
<1> HIDE DEF d
<1>5. ASSUME Form!Valid(d), Form!Consistent(p)
      PROVE  Same(p, Form!applyCredentialsMode({p}, Form!toSubmission(d)))
  <2> DEFINE mechanism == Form!Given(d, "plain")
             left == {}
             secrets == {"sharedAccessKey", "connectionString"}
             mode == Form!PreserveBlank(d)
  <2>1. Form!toSubmission(d) = Form!Submit(d, mechanism, left, secrets, mode)
    BY <1>3 DEF Form!toSubmission, Form!azureServiceBusSubmission
  <2>2. Form!keepStored(d) <=> keeps
    BY <1>3 DEF Form!keepStored
  <2>3. /\ mechanism \in Mechanisms /\ mode \in Modes
        /\ mode = "clear" => p.settings.mechanism = "none" /\ p.secrets = {}
        /\ mode # "clear" => mechanism = p.settings.mechanism
        /\ mode = "replace" => p.secrets = {}
    BY <1>1, <1>3, <1>5, <2>2, HasSecretsIs DEF Form!PreserveBlank, Form!ReplaceOnce, Form!Given, Modes, Mechanisms, StoredMechanism, Form!Consistent, Form!DerivedMechanism, Form!PlainAndStored
  <2>4. ExceptDefaults(d.filled \ left) = ExceptDefaults(p.settings.filled)
    BY <1>3 DEF ExceptDefaults
  <2>5. d \in Drafts
    BY <1>3 DEF GoodDraft
  <2> HIDE DEF mechanism, left, secrets, mode
  <2> QED BY <1>3, <2>1, <2>3, <2>4, <2>5, SavedAgain
<1> QED BY <1>3, <1>4, <1>5 DEF Reopens

LEMMA ProfileReopens == ASSUME NEW p, GoodProfile(p) PROVE Reopens(p, Form!toDraft(p))
<1>1. p.settings.protocol \in Form!Protocols
  BY DEF GoodProfile, Profiles, SettingsSet
<1>2. CASE p.settings.protocol = "rabbitmq"
  BY <1>2, RabbitMQReopens DEF Form!toDraft
<1>3. CASE p.settings.protocol = "kafka"
  BY <1>3, KafkaReopens DEF Form!toDraft
<1>4. CASE p.settings.protocol = "pulsar"
  BY <1>4, PulsarReopens DEF Form!toDraft
<1>5. CASE p.settings.protocol = "redis"
  BY <1>5, RedisReopens DEF Form!toDraft
<1>6. CASE p.settings.protocol = "mqtt"
  BY <1>6, MqttReopens DEF Form!toDraft
<1>7. CASE p.settings.protocol = "nats"
  BY <1>7, NatsReopens DEF Form!toDraft
<1>8. CASE p.settings.protocol = "activemq"
  BY <1>8, ActiveMQReopens DEF Form!toDraft
<1>9. CASE p.settings.protocol = "nsq"
  BY <1>9, NsqReopens DEF Form!toDraft
<1>10. CASE p.settings.protocol = "sqs"
  BY <1>10, SqsReopens DEF Form!toDraft
<1>11. CASE p.settings.protocol = "google-pubsub"
  BY <1>11, GooglePubSubReopens DEF Form!toDraft
<1>12. CASE p.settings.protocol = "azure-servicebus"
  BY <1>12, AzureServiceBusReopens DEF Form!toDraft
<1>13. CASE p.settings.protocol = "kinesis"
  BY <1>13, KinesisReopens DEF Form!toDraft
<1>14. CASE p.settings.protocol = "ibmmq"
  BY <1>14, IbmMqReopens DEF Form!toDraft
<1>15. CASE p.settings.protocol = "solace"
  BY <1>15, SolaceReopens DEF Form!toDraft
<1>16. CASE p.settings.protocol = "rocketmq"
  BY <1>16, RocketMQReopens DEF Form!toDraft
<1> QED
  BY <1>1, <1>2, <1>3, <1>4, <1>5, <1>6, <1>7, <1>8, <1>9, <1>10, <1>11, <1>12, <1>13, <1>14, <1>15, <1>16 DEF Form!Protocols

LEMMA SettingsWith ==
    ASSUME NEW r \in SettingsSet, NEW m, NEW f
    PROVE  [[r EXCEPT !.mechanism = m] EXCEPT !.filled = f]
           = [protocol |-> r.protocol, mechanism |-> m, choice |-> r.choice, filled |-> f]
<1> DEFINE q == [r EXCEPT !.mechanism = m]
<1>1. q = [protocol |-> r.protocol, mechanism |-> m, choice |-> r.choice, filled |-> r.filled]
  BY DEF SettingsSet
<1> HIDE DEF q
<1>2. [q EXCEPT !.filled = f]
      = [protocol |-> r.protocol, mechanism |-> m, choice |-> r.choice, filled |-> f]
  BY <1>1
<1> QED BY <1>2 DEF q

(* What a test is about is the profile it dials. *)
LEMMA DialsWhatItIsAbout ==
    ASSUME NEW d, GoodDraft(d), NEW current
    PROVE  /\ Form!probeKey(d) \in Submissions
           /\ Form!Dialled(Form!applyCredentialsMode(current, Form!toSubmission(d)))
              = Form!applyCredentialsMode(current, Form!probeKey(d))
<1> DEFINE s == Form!toSubmission(d)
           named == s.settings.filled \ {"name"}
           settings == [protocol |-> s.settings.protocol, mechanism |-> s.settings.mechanism,
                        choice |-> s.settings.choice, filled |-> named]
           k == Form!probeKey(d)
           clearing == current # {} /\ s.mode = "clear"
           added == IF s.mode = "preserve" THEN UNION {p.secrets : p \in current} ELSE {}
           mechanism == IF clearing THEN "none" ELSE s.settings.mechanism
           secrets == IF clearing THEN {} ELSE s.secrets \cup added
<1>1. s \in Submissions
  BY SubmissionBecomes DEF Becomes
<1>2. k = [s EXCEPT !.settings.filled = named]
  BY DEF Form!probeKey
<1>3. Form!applyCredentialsMode(current, s)
      = [settings |-> [s.settings EXCEPT !.mechanism = mechanism], secrets |-> secrets]
  BY DEF Form!applyCredentialsMode
<1>4. Form!applyCredentialsMode(current, k)
      = [settings |-> [k.settings EXCEPT !.mechanism = IF current # {} /\ k.mode = "clear" THEN "none" ELSE @],
         secrets |-> IF current # {} /\ k.mode = "clear" THEN {}
                     ELSE k.secrets \cup (IF k.mode = "preserve" THEN UNION {p.secrets : p \in current} ELSE {})]
  BY DEF Form!applyCredentialsMode
<1> HIDE DEF s, k
<1>5. named \in Fields
  BY <1>1 DEF Submissions, SettingsSet, Fields
<1>6. settings \in SettingsSet
  BY <1>1, <1>5 DEF Submissions, SettingsSet
<1>7. k = [settings |-> settings, secrets |-> s.secrets, mode |-> s.mode]
  <2>1. k = [s EXCEPT !.settings = [s.settings EXCEPT !.filled = named]]
    BY <1>2
  <2>2. [s.settings EXCEPT !.filled = named] = settings
    BY <1>1 DEF Submissions, SettingsSet
  <2> HIDE DEF settings
  <2> QED BY <1>1, <2>1, <2>2 DEF Submissions
<1>8. k \in Submissions
  <2> HIDE DEF settings
  <2> QED BY <1>1, <1>6, <1>7 DEF Submissions
<1>9. Form!applyCredentialsMode(current, k)
      = [settings |-> [settings EXCEPT !.mechanism = mechanism], secrets |-> secrets]
  <2> HIDE DEF settings
  <2>1. k.settings = settings /\ k.secrets = s.secrets /\ k.mode = s.mode
    BY <1>7
  <2>2. settings.mechanism = s.settings.mechanism
    BY DEF settings
  <2> QED BY <1>4, <2>1, <2>2
<1>10. [settings EXCEPT !.mechanism = mechanism]
       = [[s.settings EXCEPT !.mechanism = mechanism] EXCEPT !.filled = named]
  <2> HIDE DEF mechanism, named
  <2>1. s.settings \in SettingsSet
    BY <1>1 DEF Submissions
  <2>2. [settings EXCEPT !.mechanism = mechanism]
        = [protocol |-> s.settings.protocol, mechanism |-> mechanism,
           choice |-> s.settings.choice, filled |-> named]
    OBVIOUS
  <2>3. [[s.settings EXCEPT !.mechanism = mechanism] EXCEPT !.filled = named]
        = [protocol |-> s.settings.protocol, mechanism |-> mechanism,
           choice |-> s.settings.choice, filled |-> named]
    BY <2>1, SettingsWith
  <2> QED BY <2>2, <2>3
<1>11. [s.settings EXCEPT !.mechanism = mechanism].filled = s.settings.filled
  BY <1>1 DEF Submissions, SettingsSet
<1>12. Form!Dialled(Form!applyCredentialsMode(current, s))
       = [settings |-> [[s.settings EXCEPT !.mechanism = mechanism] EXCEPT !.filled = named],
          secrets |-> secrets]
  <2> DEFINE mine == [s.settings EXCEPT !.mechanism = mechanism]
  <2>1. Form!applyCredentialsMode(current, s) = [settings |-> mine, secrets |-> secrets]
    BY <1>3
  <2>2. mine.filled \ {"name"} = named
    BY <1>11
  <2> HIDE DEF mine, secrets, named
  <2> DEFINE q == Form!applyCredentialsMode(current, s)
  <2>3. Form!Dialled(q) = [q EXCEPT !.settings = [mine EXCEPT !.filled = named]]
    <3> HIDE DEF q
    <3>1. Form!Dialled(q) = [q EXCEPT !.settings = [q.settings EXCEPT !.filled = q.settings.filled \ {"name"}]]
      BY DEF Form!Dialled
    <3>2. q.settings = mine
      BY <2>1 DEF q
    <3> QED BY <3>1, <3>2, <2>2
  <2>4. Form!Dialled(q) = [settings |-> [mine EXCEPT !.filled = named], secrets |-> secrets]
    BY <2>1, <2>3
  <2> QED BY <2>4 DEF mine
<1> HIDE DEF settings, mechanism, secrets, named
<1> QED BY <1>8, <1>9, <1>10, <1>12 DEF s, k

AtMostOne(set) == \A x, y \in set : x = y

LEMMA AtMostOneCounts == ASSUME NEW set, AtMostOne(set) PROVE Form!Cardinality(set) <= 1
<1>0. Form!Cardinality(set) = Cardinality(set)
  BY Zenon DEF Form!Cardinality, Cardinality
<1>1. CASE set = {}
  <2>1. Cardinality(set) = 0
    BY <1>1, FS_EmptySet
  <2> QED BY <1>0, <2>1
<1>2. ASSUME NEW x \in set PROVE Form!Cardinality(set) <= 1
  <2>1. set = {x}
    BY <1>2 DEF AtMostOne
  <2>2. Cardinality(set) = 1
    BY <2>1, FS_Singleton
  <2> QED BY <1>0, <2>2
<1> QED BY <1>1, <1>2

(* A test, and the verdict it ends in, is about the profile that it dials. *)
Verdicts == [key : SUBSET Submissions, on : SUBSET Profiles, tested : SUBSET Profiles]
Genuine(v) ==
    v.on \in SUBSET Profiles /\ \E k \in Submissions : v.key = {k} /\ v.tested = {Form!applyCredentialsMode(v.on, k)}

ProfilesGood ==
    /\ AtMostOne(stored) /\ \A p \in stored : GoodProfile(p)
    /\ AtMostOne(listed) /\ \A p \in listed : GoodProfile(p)

FormSave == [id : 1..MaxSaves, draft : Drafts, editing : BOOLEAN, stage : Form!Stages]
SavesGood ==
    /\ saves \subseteq FormSave /\ \A s \in saves : GoodDraft(s.draft)
    /\ \A s, t \in saves : s.id = t.id => s = t

ProbesGood ==
    /\ Form!ProbingHasProbe
    /\ AtMostOne({p \in probes : p.live})
    /\ \A p \in probes : p.live => Genuine(p)

(* A dialog that edits shows a form. *)
Dialog == [open : BOOLEAN, editing : BOOLEAN, step : Form!Steps, draft : Drafts,
           edits : 0..MaxEdits, probing : BOOLEAN, verdict : SUBSET Verdicts, saving : BOOLEAN]

DialogGood(dg) ==
    /\ dg \in Dialog /\ GoodDraft(dg.draft)
    /\ dg.editing => dg.open /\ dg.step = "form"
    /\ AtMostOne(dg.verdict) /\ \A v \in dg.verdict : Genuine(v)

(* A form that edits and was not touched is the profile's that was listed. *)
Untouched(dg, profile) == dg.editing /\ dg.edits = 0 => \E p \in profile : dg.draft = Form!toDraft(p)

FormInv ==
    ProfilesGood /\ SavesGood /\ ProbesGood /\ DialogGood(form) /\ Untouched(form, listed)

LEMMA OneOfProfiles == ASSUME FormInv PROVE stored \in SUBSET Profiles /\ Form!Current \in SUBSET Profiles
BY DEF FormInv, ProfilesGood, GoodProfile, Form!Current

(* It says what the run checks. *)
LEMMA FormInvImplies ==
    FormInv => /\ Form!TypeOK /\ Form!ProbingHasProbe /\ Form!VerdictIsOfTheForm
               /\ Form!UntouchedEditKeeps /\ Form!AnonymousHasNoSecret
<1> SUFFICES ASSUME FormInv
             PROVE  /\ Form!TypeOK /\ Form!ProbingHasProbe /\ Form!VerdictIsOfTheForm
                    /\ Form!UntouchedEditKeeps /\ Form!AnonymousHasNoSecret
  OBVIOUS
<1>1. Form!TypeOK
  <2>1. Form!Cardinality(stored) <= 1 /\ Form!Cardinality(listed) <= 1 /\ Form!Cardinality(form.verdict) <= 1
    BY AtMostOneCounts DEF FormInv, ProfilesGood, DialogGood
  <2>2. \A p \in stored \cup listed :
          /\ p.settings.protocol \in Form!Protocols
          /\ p.settings.filled \subseteq Form!AllFields /\ p.secrets \subseteq Form!AllSecrets
    BY DEF FormInv, ProfilesGood, GoodProfile, Profiles, SettingsSet, Fields, Secrets
  <2>3. form.step \in Form!Steps /\ form.edits \in 0..MaxEdits
    BY DEF FormInv, DialogGood, Dialog
  <2>4. /\ \A s \in saves : s.id \in 1..MaxSaves /\ s.stage \in Form!Stages
        /\ \A s, t \in saves : s.id = t.id => s = t
    BY DEF FormInv, SavesGood, FormSave
  <2> QED BY <2>1, <2>2, <2>3, <2>4 DEF Form!TypeOK
<1>2. Form!VerdictIsOfTheForm
  <2> SUFFICES ASSUME NEW v \in form.verdict, v.key = {Form!probeKey(form.draft)}, v.on = Form!Current
               PROVE  v.tested = {Form!Dialled(Form!Applied(form.draft))}
    BY DEF Form!VerdictIsOfTheForm
  <2>1. PICK k \in Submissions : v.key = {k} /\ v.tested = {Form!applyCredentialsMode(v.on, k)}
    BY DEF FormInv, DialogGood, Genuine
  <2>2. k = Form!probeKey(form.draft)
    BY <2>1
  <2>3. GoodDraft(form.draft)
    BY DEF FormInv, DialogGood
  <2>4. Form!Dialled(Form!Applied(form.draft)) = Form!applyCredentialsMode(Form!Current, Form!probeKey(form.draft))
    BY <2>3, DialsWhatItIsAbout DEF Form!Applied
  <2> QED BY <2>1, <2>2, <2>4
<1>3. Form!UntouchedEditKeeps
  <2> SUFFICES ASSUME form.open, form.editing, form.edits = 0, listed = stored,
                      Form!Valid(form.draft), NEW p \in stored, Form!Consistent(p)
               PROVE  Same(p, Form!Applied(form.draft))
    BY DEF Form!UntouchedEditKeeps, Same, ExceptDefaults
  <2>1. stored = {p} /\ Form!Current = {p} /\ GoodProfile(p)
    BY DEF FormInv, ProfilesGood, AtMostOne, Form!Current
  <2>2. form.draft = Form!toDraft(p)
    BY <2>1 DEF FormInv, Untouched
  <2>3. Reopens(p, form.draft)
    BY <2>1, <2>2, ProfileReopens
  <2> QED BY <2>1, <2>3 DEF Reopens, Form!Applied
<1>4. Form!AnonymousHasNoSecret
  BY DEF FormInv, ProfilesGood, GoodProfile, Anonymous, Form!KeepsEveryBlank, Form!AnonymousHasNoSecret
<1> QED BY <1>1, <1>2, <1>3, <1>4 DEF FormInv, ProbesGood

LEMMA DialogBounds == 0 \in 0..MaxEdits /\ {} \in SUBSET Verdicts
BY FormAssumption

(* The dialog after one of its changes. *)
LEMMA DialogOpened ==
    ASSUME NEW dg \in Dialog, NEW step \in Form!Steps, NEW d, GoodDraft(d),
           dg.editing => dg.open /\ step = "form"
    PROVE  LET o == Form!Opened(dg, step, d)
           IN /\ DialogGood(o) /\ o.editing = dg.editing /\ o.draft = d /\ o.edits = 0
              /\ o.probing = FALSE
<1> DEFINE o == Form!Opened(dg, step, d)
<1>1. d \in Drafts
  BY DEF GoodDraft
<1>2. o \in Dialog
  BY <1>1, DialogBounds DEF Form!Opened, Dialog
<1>3. o.open = dg.open /\ o.editing = dg.editing /\ o.step = step /\ o.draft = d
      /\ o.edits = 0 /\ o.probing = FALSE /\ o.verdict = {}
  BY DEF Form!Opened, Dialog
<1> HIDE DEF o
<1>4. o.editing => o.open /\ o.step = "form"
  BY <1>3
<1>5. DialogGood(o)
  BY <1>2, <1>3, <1>4 DEF DialogGood, AtMostOne
<1> QED BY <1>3, <1>5 DEF o

LEMMA DialogClosed ==
    ASSUME NEW dg \in Dialog
    PROVE  LET c == Form!Closed(dg)
               e == [c EXCEPT !.saving = FALSE]
           IN /\ DialogGood(c) /\ c.editing = FALSE /\ c.probing = dg.probing
              /\ DialogGood(e) /\ e.editing = FALSE /\ e.probing = dg.probing
<1> DEFINE c == Form!Closed(dg)
           e == [c EXCEPT !.saving = FALSE]
           d == Form!emptyDraft("rocketmq")
<1>0. GoodDraft(d) /\ d \in Drafts /\ "protocol" \in Form!Steps
  BY EmptyGood DEF Form!Steps, Form!Protocols, GoodDraft
<1> HIDE DEF d
<1>1. c \in Dialog
  BY <1>0, DialogBounds DEF Form!Closed, Dialog, d
<1>2. c.editing = FALSE /\ c.draft = d /\ c.probing = dg.probing /\ c.verdict = {}
  BY DEF Form!Closed, Dialog, d
<1> HIDE DEF c
<1>3. e \in Dialog
  BY <1>1 DEF Dialog
<1>4. e.editing = FALSE /\ e.draft = d /\ e.probing = dg.probing /\ e.verdict = {}
  BY <1>1, <1>2 DEF Dialog
<1> HIDE DEF e
<1>5. DialogGood(c)
  BY <1>0, <1>1, <1>2 DEF DialogGood, AtMostOne
<1>6. DialogGood(e)
  BY <1>0, <1>3, <1>4 DEF DialogGood, AtMostOne
<1> QED BY <1>2, <1>4, <1>5, <1>6 DEF c, e

(* A test that is gone is not a live one. *)
LEMMA NoneLive ==
    ASSUME Form!resetProbe, form'.probing = FALSE PROVE ProbesGood'
<1>1. \A p \in probes' : p.live = FALSE
  BY DEF Form!resetProbe, Form!Gone
<1> QED BY <1>1 DEF ProbesGood, Form!ProbingHasProbe, AtMostOne

LEMMA FormInitInv == Form!Init => FormInv
<1> SUFFICES ASSUME Form!Init PROVE FormInv
  OBVIOUS
<1> USE DEF Form!Init
<1>1. ProfilesGood
  <2>1. CASE stored = {}
    BY <2>1 DEF ProfilesGood, AtMostOne
  <2>2. ASSUME NEW p \in Form!FirstProfiles, stored = {p} PROVE ProfilesGood
    <3>1. GoodProfile(p)
      BY FirstGood
    <3> QED BY <2>2, <3>1 DEF ProfilesGood, AtMostOne
  <2> QED BY <2>1, <2>2
<1>2. SavesGood /\ ProbesGood
  BY DEF SavesGood, ProbesGood, Form!ProbingHasProbe, AtMostOne
<1>3. GoodDraft(Form!emptyDraft("rocketmq"))
  BY EmptyGood DEF Form!Protocols
<1>4. form \in Dialog
  <2> DEFINE d == Form!emptyDraft("rocketmq")
  <2>1. d \in Drafts /\ "protocol" \in Form!Steps
    BY <1>3 DEF GoodDraft, Form!Steps
  <2> HIDE DEF d
  <2>2. form = [open |-> FALSE, editing |-> FALSE, step |-> "protocol", draft |-> d, edits |-> 0,
                probing |-> FALSE, verdict |-> {}, saving |-> FALSE]
    BY DEF d
  <2> QED BY <2>1, <2>2, DialogBounds DEF Dialog
<1>5. form.editing = FALSE /\ form.draft = Form!emptyDraft("rocketmq") /\ form.verdict = {}
  OBVIOUS
<1>6. DialogGood(form) /\ Untouched(form, listed)
  BY <1>3, <1>4, <1>5 DEF DialogGood, Untouched, AtMostOne
<1> QED BY <1>1, <1>2, <1>6 DEF FormInv

(* A step that leaves everything but the dialog, and what it says is under way. *)
LEMMA FormKeeps ==
    ASSUME FormInv
    PROVE  /\ UNCHANGED <<stored, listed>> => ProfilesGood'
           /\ UNCHANGED saves => SavesGood'
           /\ UNCHANGED probes /\ (form'.probing <=> form.probing) => ProbesGood'
<1>1. UNCHANGED <<stored, listed>> => ProfilesGood'
  BY DEF FormInv, ProfilesGood, AtMostOne
<1>2. UNCHANGED saves => SavesGood'
  BY DEF FormInv, SavesGood
<1>3. UNCHANGED probes /\ (form'.probing <=> form.probing) => ProbesGood'
  BY DEF FormInv, ProbesGood, Form!ProbingHasProbe, AtMostOne
<1> QED BY <1>1, <1>2, <1>3

LEMMA OpenNewInv == ASSUME FormInv, Form!OpenNew PROVE FormInv'
<1> DEFINE dg == [form EXCEPT !.open = TRUE, !.editing = FALSE]
<1>1. form \in Dialog
  BY DEF FormInv, DialogGood
<1>2. dg \in Dialog
  BY <1>1 DEF Dialog
<1>3. dg.editing = FALSE
  BY <1>1 DEF Dialog
<1> HIDE DEF dg
<1>4. \E step \in Form!Steps, p \in Form!Protocols : form' = Form!Opened(dg, step, Form!emptyDraft(p))
  <2>1. Followed \subseteq Form!Protocols /\ "rocketmq" \in Form!Protocols
    BY FollowedAssumption DEF Form!Protocols
  <2> QED BY <2>1 DEF Form!OpenNew, dg, Form!Steps
<1>5. PICK step \in Form!Steps, p \in Form!Protocols : form' = Form!Opened(dg, step, Form!emptyDraft(p))
  BY <1>4
<1>6. GoodDraft(Form!emptyDraft(p))
  BY EmptyGood
<1>7. DialogGood(form') /\ form'.editing = FALSE /\ form'.probing = FALSE
  BY <1>2, <1>3, <1>5, <1>6, DialogOpened
<1>8. DialogGood(form)' /\ Untouched(form, listed)'
  BY <1>7 DEF Untouched
<1>9. ProbesGood'
  BY <1>7, NoneLive DEF Form!OpenNew
<1> QED BY <1>8, <1>9, FormKeeps DEF FormInv, Form!OpenNew

LEMMA OpenEditInv == ASSUME FormInv, Form!OpenEdit PROVE FormInv'
<1> DEFINE dg == [form EXCEPT !.open = TRUE, !.editing = TRUE]
<1>1. form \in Dialog
  BY DEF FormInv, DialogGood
<1>2. dg \in Dialog
  BY <1>1 DEF Dialog
<1>3. dg.open = TRUE /\ dg.editing = TRUE
  BY <1>1 DEF Dialog
<1> HIDE DEF dg
<1>4. PICK p \in listed : form' = Form!Opened(dg, "form", Form!toDraft(p))
  BY DEF Form!OpenEdit, dg
<1>5. GoodDraft(Form!toDraft(p)) /\ "form" \in Form!Steps
  BY ProfileReopens DEF FormInv, ProfilesGood, Reopens, Form!Steps
<1>6. DialogGood(form') /\ form'.draft = Form!toDraft(p) /\ form'.probing = FALSE
  BY <1>2, <1>3, <1>4, <1>5, DialogOpened
<1>7. DialogGood(form)' /\ Untouched(form, listed)'
  BY <1>6 DEF Untouched, Form!OpenEdit
<1>8. ProbesGood'
  BY <1>6, NoneLive DEF Form!OpenEdit
<1> QED BY <1>7, <1>8, FormKeeps DEF FormInv, Form!OpenEdit

LEMMA CloseInv == ASSUME FormInv, Form!Close PROVE FormInv'
<1>1. form \in Dialog
  BY DEF FormInv, DialogGood
<1>2. DialogGood(form') /\ form'.editing = FALSE /\ form'.probing = form.probing
  BY <1>1, DialogClosed DEF Form!Close
<1>3. DialogGood(form)' /\ Untouched(form, listed)'
  BY <1>2 DEF Untouched
<1> QED BY <1>2, <1>3, FormKeeps DEF FormInv, Form!Close

LEMMA PickInv == ASSUME FormInv, Form!Pick PROVE FormInv'
<1>1. form \in Dialog /\ (form.editing => form.step = "form") /\ form.step = "protocol"
  BY DEF FormInv, DialogGood, Form!Pick
<1>2. PICK p \in Followed :
        form' = [form EXCEPT !.draft = Form!emptyDraft(p), !.edits = 0, !.probing = FALSE,
                             !.verdict = {}, !.step = "form"]
  BY DEF Form!Pick
<1> DEFINE d == Form!emptyDraft(p)
<1>3. GoodDraft(d) /\ d \in Drafts /\ "form" \in Form!Steps
  BY EmptyGood, FollowedAssumption DEF Form!Protocols, GoodDraft, Form!Steps
<1>4. form' = [form EXCEPT !.draft = d, !.edits = 0, !.probing = FALSE, !.verdict = {}, !.step = "form"]
  BY <1>2
<1> HIDE DEF d
<1>5. form' \in Dialog
  BY <1>1, <1>3, <1>4, DialogBounds DEF Dialog
<1>6. form'.draft = d /\ form'.editing = form.editing /\ form'.probing = FALSE /\ form'.verdict = {}
  BY <1>1, <1>4 DEF Dialog
<1>7. ~form'.editing
  BY <1>1, <1>6
<1>8. DialogGood(form)' /\ Untouched(form, listed)'
  BY <1>3, <1>5, <1>6, <1>7 DEF DialogGood, Untouched, AtMostOne
<1>9. ProbesGood'
  BY <1>6, NoneLive DEF Form!Pick
<1> QED BY <1>8, <1>9, FormKeeps DEF FormInv, Form!Pick

LEMMA BackInv == ASSUME FormInv, Form!Back PROVE FormInv'
<1>1. form \in Dialog /\ ~form.editing /\ form' = [form EXCEPT !.step = "protocol"]
  BY DEF FormInv, DialogGood, Form!Back
<1>2. form' \in Dialog
  BY <1>1 DEF Dialog, Form!Steps
<1>3. /\ form'.draft = form.draft /\ form'.editing = form.editing /\ form'.probing = form.probing
      /\ form'.verdict = form.verdict
  BY <1>1 DEF Dialog
<1>4. ~form'.editing
  BY <1>1, <1>3
<1>5. DialogGood(form)' /\ Untouched(form, listed)'
  BY <1>2, <1>3, <1>4 DEF FormInv, DialogGood, Untouched, AtMostOne
<1> QED BY <1>3, <1>5, FormKeeps DEF FormInv, Form!Back

LEMMA EditInv == ASSUME FormInv, Form!Edit PROVE FormInv'
<1>1. form \in Dialog /\ GoodDraft(form.draft) /\ form.edits \in 0..MaxEdits /\ form.edits < MaxEdits
  BY DEF FormInv, DialogGood, Dialog, Form!Edit
<1>2. PICK d \in Form!Form(form.draft) : form' = [form EXCEPT !.draft = d, !.edits = form.edits + 1]
  BY DEF Form!Edit
<1>3. GoodDraft(d) /\ d \in Drafts /\ form.edits + 1 \in 0..MaxEdits
  BY <1>1, FormSound, FormAssumption DEF Sound, GoodDraft
<1>4. form' \in Dialog
  BY <1>1, <1>2, <1>3 DEF Dialog
<1>5. /\ form'.draft = d /\ form'.open = form.open /\ form'.editing = form.editing
      /\ form'.step = form.step /\ form'.probing = form.probing
      /\ form'.verdict = form.verdict /\ form'.edits = form.edits + 1
  BY <1>1, <1>2 DEF Dialog
<1>6. form'.edits # 0
  BY <1>1, <1>5
<1>7. form'.editing => form'.open /\ form'.step = "form"
  BY <1>5 DEF FormInv, DialogGood
<1>8. DialogGood(form)' /\ Untouched(form, listed)'
  BY <1>3, <1>4, <1>5, <1>6, <1>7 DEF FormInv, DialogGood, Untouched, AtMostOne
<1> QED BY <1>5, <1>8, FormKeeps DEF FormInv, Form!Edit

LEMMA FillInInv == ASSUME FormInv, Form!FillIn PROVE FormInv'
<1> DEFINE d == Form!FilledIn(form.draft)
<1>1. form \in Dialog /\ GoodDraft(form.draft) /\ ~form.editing /\ form' = [form EXCEPT !.draft = d]
  BY DEF FormInv, DialogGood, Form!FillIn
<1>2. GoodDraft(d) /\ d \in Drafts
  BY <1>1, FilledInGood DEF GoodDraft
<1> HIDE DEF d
<1>3. form' \in Dialog
  BY <1>1, <1>2 DEF Dialog
<1>4. /\ form'.draft = d /\ form'.editing = form.editing /\ form'.probing = form.probing
      /\ form'.verdict = form.verdict
  BY <1>1 DEF Dialog
<1>5. ~form'.editing
  BY <1>1, <1>4
<1>6. DialogGood(form)' /\ Untouched(form, listed)'
  BY <1>2, <1>3, <1>4, <1>5 DEF FormInv, DialogGood, Untouched, AtMostOne
<1> QED BY <1>4, <1>6, FormKeeps DEF FormInv, Form!FillIn

(* A step of the dialog that changes only whether it waits for a save. *)
LEMMA DialogSame ==
    ASSUME FormInv, UNCHANGED <<listed, probes>>, form' \in Dialog,
           form'.draft = form.draft, form'.open = form.open, form'.editing = form.editing,
           form'.step = form.step, form'.edits = form.edits, form'.probing = form.probing,
           form'.verdict = form.verdict
    PROVE  DialogGood(form)' /\ Untouched(form, listed)' /\ ProbesGood'
<1>1. form'.editing => form'.open /\ form'.step = "form"
  BY DEF FormInv, DialogGood
<1>2. DialogGood(form)'
  BY <1>1 DEF FormInv, DialogGood, AtMostOne
<1>3. Untouched(form, listed)'
  BY DEF FormInv, Untouched
<1> QED BY <1>2, <1>3, FormKeeps

LEMMA ProbeInv == ASSUME FormInv, Form!runProbe PROVE FormInv'
<1> DEFINE d == form.draft
           k == Form!probeKey(d)
           q == Form!Dialled(Form!Applied(d))
           probe == [key |-> {k}, on |-> Form!Current, tested |-> {q}, live |-> TRUE]
<1>1. form \in Dialog /\ GoodDraft(d) /\ ~form.probing
  BY DEF FormInv, DialogGood, Form!runProbe
<1>2. form' = [form EXCEPT !.probing = TRUE] /\ probes' = {Form!Gone(p) : p \in probes} \cup {probe}
  BY DEF Form!runProbe
<1>3. k \in Submissions /\ q = Form!applyCredentialsMode(Form!Current, k)
  BY <1>1, DialsWhatItIsAbout DEF Form!Applied
<1> HIDE DEF k, q
<1>4. probe.key = {k} /\ probe.tested = {q} /\ probe.on = Form!Current /\ probe.live = TRUE
  OBVIOUS
<1> HIDE DEF probe
<1>5. Genuine(probe)
  BY <1>3, <1>4, OneOfProfiles DEF Genuine
<1>6. \A p \in probes' : p.live => p = probe
  <2>1. \A p \in probes : ~Form!Gone(p).live
    BY DEF Form!Gone
  <2> QED BY <1>2, <2>1
<1>7. form' \in Dialog
  BY <1>1, <1>2 DEF Dialog
<1>8. /\ form'.draft = d /\ form'.open = form.open /\ form'.editing = form.editing
      /\ form'.step = form.step /\ form'.edits = form.edits /\ form'.probing = TRUE
      /\ form'.verdict = form.verdict
  BY <1>1, <1>2 DEF Dialog
<1>9. DialogGood(form)'
  <2>1. form'.editing => form'.open /\ form'.step = "form"
    BY <1>8 DEF FormInv, DialogGood
  <2> QED BY <1>1, <1>7, <1>8, <2>1 DEF FormInv, DialogGood, AtMostOne
<1>10. Untouched(form, listed)'
  BY <1>8 DEF FormInv, Untouched, Form!runProbe
<1>11. ProbesGood'
  <2>1. Form!ProbingHasProbe'
    BY <1>2, <1>4, <1>8 DEF Form!ProbingHasProbe
  <2> QED BY <1>5, <1>6, <2>1 DEF ProbesGood, AtMostOne
<1> QED BY <1>9, <1>10, <1>11, FormKeeps DEF FormInv, Form!runProbe

LEMMA ProbeAnswersInv == ASSUME FormInv, Form!ProbeAnswers PROVE FormInv'
<1>1. PICK p \in probes :
        /\ probes' = probes \ {p}
        /\ form' = IF p.live
                   THEN [form EXCEPT !.verdict = {[key |-> p.key, on |-> p.on, tested |-> p.tested]},
                                     !.probing = FALSE]
                   ELSE form
        /\ UNCHANGED <<stored, listed, saves, writes>>
  BY DEF Form!ProbeAnswers
<1>2. CASE ~p.live
  <2>1. form' = form
    BY <1>1, <1>2
  <2>2. \A x \in probes : x.live => x \in probes'
    BY <1>1, <1>2
  <2>3. ProbesGood'
    BY <1>1, <2>1, <2>2 DEF FormInv, ProbesGood, Form!ProbingHasProbe, AtMostOne
  <2> QED BY <1>1, <2>1, <2>3, FormKeeps DEF FormInv, DialogGood, Untouched, AtMostOne
<1>3. CASE p.live
  <2> DEFINE v == [key |-> p.key, on |-> p.on, tested |-> p.tested]
  <2>1. form \in Dialog /\ form' = [form EXCEPT !.verdict = {v}, !.probing = FALSE]
    BY <1>1, <1>3 DEF FormInv, DialogGood
  <2>2. PICK k \in Submissions : p.key = {k} /\ p.tested = {Form!applyCredentialsMode(p.on, k)}
    BY <1>3 DEF FormInv, ProbesGood, Genuine
  <2>3. p.on \in SUBSET Profiles
    BY <1>3 DEF FormInv, ProbesGood, Genuine
  <2>4. v.key = {k} /\ v.on = p.on /\ v.tested = {Form!applyCredentialsMode(p.on, k)}
    BY <2>2
  <2>5. Form!applyCredentialsMode(p.on, k) \in Profiles
    BY <2>3, AppliedIs
  <2>6. v \in Verdicts
    BY <2>2, <2>3, <2>5 DEF Verdicts
  <2>7. Genuine(v)
    <3> HIDE DEF v
    <3> QED BY <2>3, <2>4 DEF Genuine
  <2> HIDE DEF v
  <2>8. form' \in Dialog
    BY <2>1, <2>6 DEF Dialog
  <2>9. /\ form'.draft = form.draft /\ form'.open = form.open /\ form'.editing = form.editing
        /\ form'.step = form.step /\ form'.edits = form.edits /\ form'.probing = FALSE
        /\ form'.verdict = {v}
    BY <2>1 DEF Dialog
  <2>10. DialogGood(form)' /\ Untouched(form, listed)'
    <3>1. form'.editing => form'.open /\ form'.step = "form"
      BY <2>9 DEF FormInv, DialogGood
    <3>2. Untouched(form, listed)'
      BY <1>1, <2>9 DEF FormInv, Untouched
    <3>3. DialogGood(form)'
      BY <2>7, <2>8, <2>9, <3>1 DEF FormInv, DialogGood, AtMostOne
    <3> QED BY <3>2, <3>3
  <2>11. ProbesGood'
    <3>1. \A x \in probes' : ~x.live
      BY <1>1, <1>3 DEF FormInv, ProbesGood, AtMostOne
    <3> QED BY <2>9, <3>1 DEF ProbesGood, Form!ProbingHasProbe, AtMostOne
  <2> QED BY <1>1, <2>10, <2>11, FormKeeps DEF FormInv
<1> QED BY <1>2, <1>3

LEMMA SaveInv == ASSUME FormInv, Form!Save PROVE FormInv'
<1>1. form \in Dialog /\ GoodDraft(form.draft) /\ form.editing \in BOOLEAN
  BY DEF FormInv, DialogGood, Dialog
<1>2. PICK id \in 1..MaxSaves :
        /\ Form!SaveOf(id) = {}
        /\ saves' = saves \cup {[id |-> id, draft |-> form.draft, editing |-> form.editing,
                                 stage |-> "sent"]}
  BY DEF Form!Save
<1> DEFINE own == [id |-> id, draft |-> form.draft, editing |-> form.editing, stage |-> "sent"]
<1>3. own \in FormSave /\ own.id = id /\ own.draft = form.draft
  BY <1>1 DEF FormSave, GoodDraft, Form!Stages
<1>4. saves' = saves \cup {own} /\ \A s \in saves : s.id # id
  BY <1>2 DEF Form!SaveOf
<1> HIDE DEF own
<1>5. SavesGood'
  BY <1>1, <1>3, <1>4 DEF FormInv, SavesGood
<1>6. form' = [form EXCEPT !.saving = TRUE] /\ UNCHANGED <<stored, listed, probes, writes>>
  BY DEF Form!Save
<1>7. form' \in Dialog
  BY <1>1, <1>6 DEF Dialog
<1>8. /\ form'.draft = form.draft /\ form'.open = form.open /\ form'.editing = form.editing
      /\ form'.step = form.step /\ form'.edits = form.edits /\ form'.probing = form.probing
      /\ form'.verdict = form.verdict
  BY <1>1, <1>6 DEF Dialog
<1>9. DialogGood(form)' /\ Untouched(form, listed)' /\ ProbesGood'
  BY <1>6, <1>7, <1>8, DialogSame
<1> QED BY <1>5, <1>6, <1>9, FormKeeps DEF FormInv

LEMMA SaveFailedInv == ASSUME FormInv, Form!SaveFailed PROVE FormInv'
<1>1. form \in Dialog /\ form' = [form EXCEPT !.saving = FALSE] /\ UNCHANGED <<stored, listed, probes, writes>>
  BY DEF FormInv, DialogGood, Form!SaveFailed
<1>2. SavesGood'
  BY DEF FormInv, SavesGood, Form!SaveFailed
<1>3. form' \in Dialog
  BY <1>1 DEF Dialog
<1>4. /\ form'.draft = form.draft /\ form'.open = form.open /\ form'.editing = form.editing
      /\ form'.step = form.step /\ form'.edits = form.edits /\ form'.probing = form.probing
      /\ form'.verdict = form.verdict
  BY <1>1 DEF Dialog
<1>5. DialogGood(form)' /\ Untouched(form, listed)' /\ ProbesGood'
  BY <1>1, <1>3, <1>4, DialogSame
<1> QED BY <1>1, <1>2, <1>5, FormKeeps DEF FormInv

LEMMA StoreProfileInv == ASSUME FormInv, Form!Store PROVE FormInv'
<1>1. PICK s \in saves :
        /\ UNCHANGED <<listed, form, probes>>
        /\ LET current == IF s.editing THEN stored ELSE {}
               profile == Form!applyCredentialsMode(current, Form!toSubmission(s.draft))
           IN \/ stored' = {profile} /\ saves' = (saves \ {s}) \cup {[s EXCEPT !.stage = "stored"]}
              \/ stored' = stored /\ saves' = (saves \ {s}) \cup {[s EXCEPT !.stage = "refused"]}
  BY DEF Form!Store
<1> DEFINE current == IF s.editing THEN stored ELSE {}
           profile == Form!applyCredentialsMode(current, Form!toSubmission(s.draft))
<1>2. s \in FormSave /\ GoodDraft(s.draft)
  BY DEF FormInv, SavesGood
<1>3. GoodProfile(profile)
  <2>1. current \in SUBSET Profiles
    BY OneOfProfiles
  <2> HIDE DEF current
  <2> QED BY <1>2, <2>1, SubmissionBecomes DEF Becomes
<1>4. ProfilesGood'
  <2> HIDE DEF profile
  <2>1. stored' = {profile} \/ stored' = stored
    BY <1>1 DEF profile
  <2> QED BY <1>1, <1>3, <2>1 DEF FormInv, ProfilesGood, AtMostOne
<1>5. SavesGood'
  <2>1. PICK stage \in {"stored", "refused"} : saves' = (saves \ {s}) \cup {[s EXCEPT !.stage = stage]}
    BY <1>1
  <2> DEFINE t == [s EXCEPT !.stage = stage]
  <2>2. t \in FormSave /\ t.id = s.id /\ t.draft = s.draft
    BY <1>2 DEF FormSave, Form!Stages
  <2>3. saves' = (saves \ {s}) \cup {t}
    BY <2>1
  <2> HIDE DEF t
  <2> QED BY <1>2, <2>2, <2>3 DEF FormInv, SavesGood
<1>6. DialogGood(form)' /\ Untouched(form, listed)' /\ ProbesGood'
  BY <1>1 DEF FormInv, DialogGood, Untouched, ProbesGood, Form!ProbingHasProbe, AtMostOne
<1> QED BY <1>4, <1>5, <1>6 DEF FormInv

LEMMA ReloadInv == ASSUME FormInv, Form!Reload PROVE FormInv'
<1>1. form \in Dialog /\ listed' = stored /\ UNCHANGED <<stored, saves, writes>>
  BY DEF FormInv, DialogGood, Form!Reload
<1>2. ProfilesGood'
  BY <1>1 DEF FormInv, ProfilesGood, AtMostOne
<1>3. CASE form.open /\ form.editing
  <2>1. PICK p \in stored : form' = Form!Opened(form, "form", Form!toDraft(p))
    BY <1>3 DEF Form!Reload
  <2>2. GoodDraft(Form!toDraft(p)) /\ "form" \in Form!Steps
    BY ProfileReopens DEF FormInv, ProfilesGood, Reopens, Form!Steps
  <2>3. DialogGood(form') /\ form'.draft = Form!toDraft(p) /\ form'.probing = FALSE
    BY <1>1, <1>3, <2>1, <2>2, DialogOpened
  <2>4. DialogGood(form)' /\ Untouched(form, listed)'
    BY <1>1, <2>3 DEF Untouched
  <2>5. ProbesGood'
    BY <1>3, <2>3, NoneLive DEF Form!Reload
  <2> QED BY <1>1, <1>2, <2>4, <2>5, FormKeeps DEF FormInv
<1>4. CASE ~(form.open /\ form.editing)
  <2>1. UNCHANGED <<form, probes>>
    BY <1>4 DEF Form!Reload
  <2>2. ~form.editing
    BY <1>4 DEF FormInv, DialogGood
  <2>3. DialogGood(form)' /\ Untouched(form, listed)'
    BY <2>1, <2>2 DEF FormInv, DialogGood, Untouched, AtMostOne
  <2> QED BY <1>1, <1>2, <2>1, <2>3, FormKeeps DEF FormInv
<1> QED BY <1>3, <1>4

LEMMA SaveDoneInv == ASSUME FormInv, Form!SaveDone PROVE FormInv'
<1>1. /\ form \in Dialog /\ form' = [Form!Closed(form) EXCEPT !.saving = FALSE]
      /\ listed' = stored /\ UNCHANGED <<stored, probes, writes>>
  BY DEF FormInv, DialogGood, Form!SaveDone
<1>2. ProfilesGood' /\ SavesGood'
  BY <1>1 DEF FormInv, ProfilesGood, SavesGood, AtMostOne, Form!SaveDone
<1>3. DialogGood(form') /\ form'.editing = FALSE /\ form'.probing = form.probing
  BY <1>1, DialogClosed
<1>4. DialogGood(form)' /\ Untouched(form, listed)'
  BY <1>3 DEF Untouched
<1> QED BY <1>1, <1>2, <1>3, <1>4, FormKeeps DEF FormInv

(* Every step keeps the form true. *)
LEMMA FormNextInv == ASSUME FormInv, Form!Next PROVE FormInv'
BY OpenNewInv, OpenEditInv, CloseInv, PickInv, BackInv, EditInv, FillInInv, ProbeInv,
   ProbeAnswersInv, SaveInv, StoreProfileInv, ReloadInv, SaveDoneInv, SaveFailedInv DEF Form!Next

LEMMA FormStays == ASSUME FormInv, UNCHANGED formVars PROVE FormInv'
<1>1. UNCHANGED <<stored, listed, form, probes, saves, writes>>
  BY DEF formVars
<1> QED BY <1>1, FormKeeps DEF FormInv, DialogGood, Untouched, AtMostOne

--------------------------------------------------------------------------------
(* The tabs. *)

(* What a filter keeps of a sequence: each kept place has one rank, and each rank a place. *)
LEMMA RanksAreOnto ==
    ASSUME NEW n \in Nat, NEW places \in SUBSET (1..n)
    PROVE  /\ IsFiniteSet(places) /\ Cardinality(places) \in Nat
           /\ \A i \in places : Cardinality({j \in places : j <= i}) \in 1..Cardinality(places)
           /\ \A i, k \in places :
                 Cardinality({j \in places : j <= i}) = Cardinality({j \in places : j <= k}) => i = k
           /\ \A r \in 1..Cardinality(places) :
                 \E i \in places : Cardinality({j \in places : j <= i}) = r
<1> DEFINE Rank(i) == Cardinality({j \in places : j <= i})
<1>1. IsFiniteSet(places) /\ Cardinality(places) \in Nat
  <2>1. IsFiniteSet(1..n)
    BY FS_Interval
  <2>2. IsFiniteSet(places)
    BY <2>1, FS_Subset
  <2> QED BY <2>2, FS_CardinalityType
<1>2. \A i \in places : /\ IsFiniteSet({j \in places : j <= i}) /\ Rank(i) \in Nat
                        /\ Rank(i) <= Cardinality(places)
  <2> TAKE i \in places
  <2> DEFINE low == {j \in places : j <= i}
  <2>1. low \in SUBSET places
    OBVIOUS
  <2>2. IsFiniteSet(low) /\ Cardinality(low) <= Cardinality(places)
    BY <1>1, <2>1, FS_Subset
  <2> QED BY <2>2, FS_CardinalityType
<1>3. \A i \in places : Rank(i) \in 1..Cardinality(places)
  <2> TAKE i \in places
  <2> DEFINE low == {j \in places : j <= i}
  <2>1. i \in low
    OBVIOUS
  <2>2. IsFiniteSet(low) /\ low # {}
    BY <1>2, <2>1
  <2>3. Cardinality(low) # 0
    BY <2>2, FS_EmptySet
  <2> QED BY <1>1, <1>2, <2>3
<1>4. ASSUME NEW i \in places, NEW k \in places, Rank(i) = Rank(k), i < k PROVE FALSE
  <2> DEFINE low == {j \in places : j <= i}
             high == {j \in places : j <= k}
  <2>0. i \in Nat /\ k \in Nat /\ \A j \in places : j \in Nat
    OBVIOUS
  <2>1. low \in SUBSET high /\ k \in high /\ k \notin low
    <3>1. \A j \in places : j <= i => j <= k
      BY <1>4, <2>0
    <3>2. ~(k <= i) /\ k <= k
      BY <1>4, <2>0
    <3> QED BY <3>1, <3>2
  <2>2. IsFiniteSet(high) /\ Cardinality(high) = Cardinality(low)
    BY <1>2, <1>4
  <2> HIDE DEF low, high
  <2>3. high = low
    BY <2>1, <2>2, FS_Subset
  <2> QED BY <2>1, <2>3
<1>5. \A i, k \in places : Rank(i) = Rank(k) => i = k
  BY <1>4
<1>6. \A r \in 1..Cardinality(places) : \E i \in places : Rank(i) = r
  <2> DEFINE f == [i \in places |-> Rank(i)]
             ranks == 1..Cardinality(places)
  <2> HIDE DEF Rank
  <2>1. f \in [places -> ranks] /\ \A i, k \in places : f[i] = f[k] => i = k
    BY <1>3, <1>5
  <2>2. f \in Injection(places, ranks)
    <3> HIDE DEF f, ranks
    <3> QED BY <2>1 DEF Injection, IsInjective
  <2>3. IsFiniteSet(ranks) /\ Cardinality(ranks) = Cardinality(places)
    BY <1>1, FS_Interval
  <2>4. f \in Surjection(places, ranks)
    BY <2>2, <2>3, FS_Injection
  <2>5. \A r \in ranks : \E i \in places : f[i] = r
    BY <2>4 DEF Surjection
  <2> QED BY <2>5
<1> QED BY <1>1, <1>3, <1>5, <1>6

LEMMA KeptIs ==
    ASSUME NEW S, NEW line \in Seq(S), NEW those
    PROVE  /\ Shell!Kept(line, those) \in Seq(S)
           /\ Shell!ToSet(Shell!Kept(line, those)) = Shell!ToSet(line) \cap those
           /\ Shell!IsInjective(line) => Shell!IsInjective(Shell!Kept(line, those))
<1> DEFINE places == {i \in DOMAIN line : line[i] \in those}
           Rank(i) == Cardinality({j \in places : j <= i})
           size == Cardinality(places)
           At(r) == CHOOSE i \in places : Rank(i) = r
           q == [r \in 1..size |-> line[At(r)]]
<1>1. Shell!Kept(line, those) = q
  BY Zenon DEF Shell!Kept, Shell!Cardinality, Cardinality
<1>2. Len(line) \in Nat /\ DOMAIN line = 1..Len(line) /\ \A i \in 1..Len(line) : line[i] \in S
  OBVIOUS
<1>3. places \in SUBSET (1..Len(line))
  BY <1>2
<1>4. /\ size \in Nat
      /\ \A i \in places : Rank(i) \in 1..size
      /\ \A i, k \in places : Rank(i) = Rank(k) => i = k
      /\ \A r \in 1..size : \E i \in places : Rank(i) = r
  <2> HIDE DEF places
  <2> QED BY <1>2, <1>3, RanksAreOnto
<1> HIDE DEF Rank, size
<1>5. \A r \in 1..size : At(r) \in places /\ Rank(At(r)) = r
  BY <1>4
<1>6. \A i \in places : At(Rank(i)) = i
  <2> TAKE i \in places
  <2>1. At(Rank(i)) \in places /\ Rank(At(Rank(i))) = Rank(i)
    <3> HIDE DEF At
    <3> QED BY <1>4, <1>5
  <2> QED BY <1>4, <2>1
<1> HIDE DEF At
<1>7. \A i \in places : line[i] \in S /\ line[i] \in those /\ i \in DOMAIN line
  BY <1>2
<1>8. q \in Seq(S)
  <2>1. \A r \in 1..size : line[At(r)] \in S
    BY <1>5, <1>7
  <2> QED BY <1>4, <2>1
<1>9. DOMAIN q = 1..size /\ \A r \in 1..size : q[r] = line[At(r)]
  OBVIOUS
<1>10. Shell!ToSet(q) = Shell!ToSet(line) \cap those
  <2>1. ASSUME NEW r \in DOMAIN q PROVE q[r] \in Shell!ToSet(line) \cap those
    <3> HIDE DEF q
    <3>1. q[r] = line[At(r)] /\ At(r) \in places
      BY <1>5, <1>9
    <3> QED BY <1>7, <3>1 DEF Shell!ToSet
  <2>2. ASSUME NEW x \in Shell!ToSet(line) \cap those PROVE \E r \in DOMAIN q : q[r] = x
    <3>1. PICK i \in DOMAIN line : line[i] = x
      BY DEF Shell!ToSet
    <3>2. i \in places
      BY <3>1
    <3> HIDE DEF q, places
    <3>3. Rank(i) \in 1..size /\ At(Rank(i)) = i
      BY <1>4, <1>6, <3>2
    <3> QED BY <1>9, <3>1, <3>3
  <2> HIDE DEF q
  <2> QED BY <2>1, <2>2 DEF Shell!ToSet
<1>11. ASSUME Shell!IsInjective(line) PROVE Shell!IsInjective(q)
  <2> SUFFICES ASSUME NEW a \in DOMAIN q, NEW b \in DOMAIN q, q[a] = q[b] PROVE a = b
    BY DEF Shell!IsInjective
  <2> HIDE DEF q, places
  <2>1. /\ At(a) \in places /\ At(b) \in places /\ line[At(a)] = line[At(b)]
        /\ Rank(At(a)) = a /\ Rank(At(b)) = b
    BY <1>5, <1>9
  <2>2. At(a) = At(b)
    BY <1>7, <1>11, <2>1 DEF Shell!IsInjective
  <2> QED BY <2>1, <2>2
<1> QED BY <1>1, <1>8, <1>10, <1>11

TabCall == [op : {"none", "mount", "change", "disconnect", "delete"}, of : Tabs \cup {NoTab},
            at : {"rest", "sent", "reading", "read"}, snap : SUBSET Tabs]

(* A strip of tabs, none twice, with an open one in front. *)
Fronted(strip) ==
    /\ strip.tabs \in Seq(Tabs) /\ Shell!IsInjective(strip.tabs)
    /\ strip.active # NoTab => strip.active \in Shell!ToSet(strip.tabs)

Stored(store) == store.tabs \in Seq(Tabs) /\ Shell!IsInjective(store.tabs)

ShellRest ==
    /\ profiles \subseteq Tabs /\ tabList \subseteq Tabs
    /\ tabSeen \in BOOLEAN /\ loading \in BOOLEAN /\ loadFailed \in BOOLEAN
    /\ tabCalls \in [Shell!Slots -> TabCall]
    /\ loading \/ loadFailed \/ tabSeen

(* What is stored is what is open, once it has been taken up. *)
TabsTrue ==
    /\ Fronted(Shell!Shown) /\ Stored(session) /\ restored \in BOOLEAN
    /\ restored => session.tabs = tabs

ShellInv == ShellRest /\ TabsTrue

(* A stored tab that is not stored any more. *)
Excused ==
    \A c \in Shell!ToSet(session.tabs) \ Shell!ToSet(session'.tabs) :
        c \in Shell!ToSet(tabs) \/ (tabSeen' /\ c \notin tabList')

LEMMA ShellInvImplies == ShellInv => Shell!TypeOK /\ Shell!FrontIsOpen
<1> SUFFICES ASSUME ShellInv PROVE Shell!TypeOK /\ Shell!FrontIsOpen
  OBVIOUS
<1>1. \A line \in Seq(Tabs) : Shell!ToSet(line) \subseteq Tabs
  BY DEF Shell!ToSet
<1>2. Shell!ToSet(tabs) \subseteq Tabs /\ Shell!ToSet(session.tabs) \subseteq Tabs
  BY <1>1 DEF ShellInv, TabsTrue, Fronted, Stored, Shell!Shown
<1>3. \A s \in Shell!Slots : tabCalls[s].at \in {"rest", "sent", "reading", "read"}
  BY DEF ShellInv, ShellRest, TabCall
<1>4. tabSeen \in BOOLEAN /\ loading \in BOOLEAN /\ loadFailed \in BOOLEAN /\ restored \in BOOLEAN
  BY DEF ShellInv, ShellRest, TabsTrue
<1>5. {tabSeen, loading, loadFailed, restored} \subseteq BOOLEAN
  BY Zenon, <1>4
<1>6. Shell!FrontIsOpen
  BY DEF ShellInv, TabsTrue, Fronted, Shell!Shown, Shell!FrontIsOpen
<1> QED BY <1>2, <1>3, <1>5, <1>6 DEF ShellInv, ShellRest, Shell!TypeOK

LEMMA FirstIs ==
    ASSUME NEW S, NEW line \in Seq(S)
    PROVE  /\ line = <<>> <=> Shell!ToSet(line) = {}
           /\ line # <<>> => Head(line) \in Shell!ToSet(line)
           /\ Shell!First(line) = NoTab \/ Shell!First(line) \in Shell!ToSet(line)
<1>1. line # <<>> => 1 \in DOMAIN line /\ Head(line) = line[1]
  OBVIOUS
<1>2. line = <<>> => Shell!ToSet(line) = {}
  BY DEF Shell!ToSet
<1> QED BY <1>1, <1>2 DEF Shell!ToSet, Shell!First

LEMMA WithoutIs ==
    ASSUME NEW line \in Seq(Tabs), Shell!IsInjective(line), NEW c
    PROVE  LET q == Shell!Without(line, c)
           IN q \in Seq(Tabs) /\ Shell!IsInjective(q) /\ Shell!ToSet(q) = Shell!ToSet(line) \ {c}
<1> DEFINE those == Shell!ToSet(line) \ {c}
<1>1. Shell!ToSet(line) \cap those = those
  OBVIOUS
<1> HIDE DEF those
<1>2. /\ Shell!Kept(line, those) \in Seq(Tabs) /\ Shell!IsInjective(Shell!Kept(line, those))
      /\ Shell!ToSet(Shell!Kept(line, those)) = those
  BY <1>1, KeptIs
<1> QED BY <1>2 DEF Shell!Without, those

LEMMA DroppedFronted == ASSUME TabsTrue, NEW c PROVE Fronted(Shell!Dropped(c))
<1>1. /\ tabs \in Seq(Tabs) /\ Shell!IsInjective(tabs)
      /\ active # NoTab => active \in Shell!ToSet(tabs)
  BY DEF TabsTrue, Fronted, Shell!Shown
<1> DEFINE q == Shell!Without(tabs, c)
<1>2. q \in Seq(Tabs) /\ Shell!IsInjective(q) /\ Shell!ToSet(q) = Shell!ToSet(tabs) \ {c}
  BY <1>1, WithoutIs
<1> HIDE DEF q
<1>3. Shell!Dropped(c) = [tabs |-> q, active |-> IF active = c THEN NoTab ELSE active]
  BY DEF Shell!Dropped, q
<1> QED BY <1>1, <1>2, <1>3 DEF Fronted

(* The stored session, taken up. *)
LEMMA RestoredFronted ==
    ASSUME TabsTrue, NEW now, Fronted(now)
    PROVE  /\ Fronted(Shell!RestoreSession(now))
           /\ \A c \in Shell!ToSet(session.tabs) \ Shell!ToSet(Shell!RestoreSession(now).tabs) :
                 c \notin tabList'
<1> DEFINE q == Shell!Kept(session.tabs, tabList')
           at == IF session.active \in Shell!ToSet(q) THEN session.active ELSE Head(q)
<1>1. /\ q \in Seq(Tabs) /\ Shell!IsInjective(q)
      /\ Shell!ToSet(q) = Shell!ToSet(session.tabs) \cap tabList'
  BY KeptIs DEF TabsTrue, Stored
<1>2. Shell!RestoreSession(now) = IF q = <<>> THEN now ELSE [tabs |-> q, active |-> at]
  BY DEF Shell!RestoreSession
<1> HIDE DEF q
<1>3. (q = <<>> <=> Shell!ToSet(q) = {}) /\ (q # <<>> => at \in Shell!ToSet(q))
  BY <1>1, FirstIs
<1> HIDE DEF at
<1>4. CASE q = <<>>
  BY <1>1, <1>2, <1>3, <1>4
<1>5. CASE q # <<>>
  <2>1. /\ Shell!RestoreSession(now).tabs = q
        /\ Shell!RestoreSession(now).active = at
    BY <1>2, <1>5
  <2> QED BY <1>1, <1>3, <1>5, <2>1 DEF Fronted
<1> QED BY <1>4, <1>5

(* The strip and what is stored of it, after a change. *)
LEMMA RememberInv ==
    ASSUME TabsTrue, NEW strip, Fronted(strip), Shell!Show(strip), Shell!Remember,
           restored' \in BOOLEAN, restored => restored'
    PROVE  TabsTrue'
<1>1. /\ tabs' = strip.tabs /\ active' = strip.active
      /\ session' = IF restored' THEN [tabs |-> tabs', active |-> active'] ELSE session
  BY DEF Shell!Show, Shell!Remember
<1>2. Shell!Shown' = [tabs |-> strip.tabs, active |-> strip.active]
  BY <1>1 DEF Shell!Shown
<1>3. Fronted(Shell!Shown')
  <2> DEFINE shownNow == [tabs |-> strip.tabs, active |-> strip.active]
  <2>1. shownNow.tabs = strip.tabs /\ shownNow.active = strip.active
    OBVIOUS
  <2> HIDE DEF shownNow
  <2>2. Fronted(shownNow)
    BY <2>1 DEF Fronted
  <2> QED BY <1>2, <2>2 DEF shownNow
<1>4. CASE restored'
  <2>1. session'.tabs = strip.tabs /\ tabs' = strip.tabs
    BY <1>1, <1>4
  <2>2. Stored(session')
    BY <2>1 DEF Stored, Fronted
  <2> QED BY <1>3, <2>1, <2>2 DEF TabsTrue
<1>5. CASE ~restored'
  <2>1. session' = session
    BY <1>1, <1>5
  <2> QED BY <1>3, <1>5, <2>1 DEF TabsTrue
<1> QED BY <1>4, <1>5

LEMMA RestoreInv ==
    ASSUME TabsTrue, NEW now, Fronted(now), Shell!Restore(now),
           loading' \/ loadFailed' \/ tabSeen'
    PROVE  TabsTrue' /\ Excused
<1>1. CASE loading' \/ loadFailed' \/ restored
  <2>1. Shell!Show(now) /\ restored' = restored /\ Shell!Remember
    BY <1>1 DEF Shell!Restore
  <2>2. TabsTrue'
    BY <2>1, RememberInv DEF TabsTrue
  <2>3. Excused
    <3>1. CASE restored
      BY <3>1 DEF TabsTrue, Excused
    <3>2. CASE ~restored
      BY <2>1, <3>2 DEF Shell!Remember, Excused
    <3> QED BY <3>1, <3>2
  <2> QED BY <2>2, <2>3
<1>2. CASE ~(loading' \/ loadFailed' \/ restored)
  <2>1. Shell!Show(Shell!RestoreSession(now)) /\ restored' = TRUE /\ Shell!Remember
    BY <1>2 DEF Shell!Restore
  <2>2. TabsTrue'
    <3> DEFINE strip == Shell!RestoreSession(now)
    <3>1. Fronted(strip)
      BY RestoredFronted
    <3> HIDE DEF strip
    <3>2. Shell!Show(strip)
      BY <2>1 DEF strip
    <3> QED BY <2>1, <3>1, <3>2, RememberInv
  <2>3. session'.tabs = Shell!RestoreSession(now).tabs
    BY <2>1 DEF Shell!Remember, Shell!Show
  <2>4. Excused
    BY <1>2, <2>3, RestoredFronted DEF Excused
  <2> QED BY <2>2, <2>4
<1> QED BY <1>1, <1>2

LEMMA FiniteTabs == \A S \in SUBSET Tabs : IsFiniteSet(S)
  BY TabsAssumption, FS_Subset

LEMMA TabCallsTyped ==
    /\ Shell!Rest \in TabCall /\ Shell!Mount \in TabCall
    /\ \A op \in {"change", "disconnect", "delete"}, c \in Tabs \cup {NoTab} :
          Shell!Sent(op, c) \in TabCall
BY DEF Shell!Rest, Shell!Mount, Shell!Sent, TabCall

LEMMA ShellInitInv == Shell!Init => ShellInv
<1> SUFFICES ASSUME Shell!Init PROVE ShellInv
  OBVIOUS
<1> USE DEF Shell!Init
<1>1. tabCalls \in [Shell!Slots -> TabCall]
  BY TabCallsTyped
<1>2. ShellRest
  BY <1>1 DEF ShellRest
<1>3. Fronted(Shell!Shown)
  <2>1. <<>> \in Seq(Tabs) /\ Shell!IsInjective(<<>>)
    BY DEF Shell!IsInjective
  <2> QED BY <2>1 DEF Fronted, Shell!Shown
<1>4. Stored(session)
  <2>0. PICK line \in UNION {Shell!SetToSeqs(S) : S \in SUBSET Tabs} :
          session = [tabs |-> line, active |-> Shell!First(line)]
    OBVIOUS
  <2>1. PICK S \in SUBSET Tabs : line \in Shell!SetToSeqs(S)
    BY <2>0
  <2>2. line \in [1..Shell!Cardinality(S) -> S] /\ Shell!IsInjective(line)
    BY <2>1 DEF Shell!SetToSeqs, Shell!IsInjective
  <2>3. Shell!Cardinality(S) \in Nat
    <3>1. Shell!Cardinality(S) = Cardinality(S) /\ IsFiniteSet(S)
      BY Zenon, FiniteTabs DEF Shell!Cardinality, Cardinality
    <3> QED BY <3>1, FS_CardinalityType
  <2>4. line \in Seq(Tabs)
    BY <2>2, <2>3
  <2>5. session.tabs = line
    BY <2>0
  <2> QED BY <2>2, <2>4, <2>5 DEF Stored
<1> QED BY <1>2, <1>3, <1>4 DEF ShellInv, TabsTrue

(* The strip changes under the window's hand. *)
LEMMA StripInv ==
    ASSUME ShellInv, NEW strip, Fronted(strip), Shell!Show(strip), Shell!Remember,
           UNCHANGED <<profiles, tabList, tabSeen, loading, loadFailed, tabCalls, restored>>
    PROVE  ShellInv' /\ Excused
<1>1. TabsTrue'
  BY RememberInv DEF ShellInv, TabsTrue
<1>2. ShellRest'
  BY DEF ShellInv, ShellRest
<1>3. CASE restored
  BY <1>1, <1>2, <1>3 DEF ShellInv, TabsTrue, Excused
<1>4. CASE ~restored
  BY <1>1, <1>2, <1>4 DEF ShellInv, Shell!Remember, Excused
<1> QED BY <1>3, <1>4

LEMMA OpenTabInv == ASSUME ShellInv, NEW c \in Tabs, Shell!OpenTab(c) PROVE ShellInv' /\ Excused
<1> DEFINE line == IF c \in Shell!ToSet(tabs) THEN tabs ELSE Append(tabs, c)
           strip == [tabs |-> line, active |-> c]
<1>1. tabs \in Seq(Tabs) /\ Shell!IsInjective(tabs)
  BY DEF ShellInv, TabsTrue, Fronted, Shell!Shown
<1>2. line \in Seq(Tabs) /\ Shell!IsInjective(line) /\ c \in Shell!ToSet(line)
  <2>1. CASE c \in Shell!ToSet(tabs)
    BY <1>1, <2>1
  <2>2. CASE c \notin Shell!ToSet(tabs)
    <3> DEFINE more == Append(tabs, c)
    <3>1. /\ more \in Seq(Tabs) /\ DOMAIN tabs = 1..Len(tabs) /\ Len(tabs) \in Nat
          /\ DOMAIN more = 1..Len(tabs) + 1
          /\ more[Len(tabs) + 1] = c /\ \A i \in 1..Len(tabs) : more[i] = tabs[i]
      BY <1>1
    <3>2. \A i \in 1..Len(tabs) : tabs[i] # c
      BY <2>2, <3>1 DEF Shell!ToSet
    <3> HIDE DEF more
    <3>3. \A i \in DOMAIN more : i = Len(tabs) + 1 \/ i \in 1..Len(tabs)
      BY <3>1
    <3>4. Shell!IsInjective(more)
      BY <1>1, <3>1, <3>2, <3>3 DEF Shell!IsInjective
    <3>5. c \in Shell!ToSet(more)
      BY <3>1 DEF Shell!ToSet
    <3> QED BY <2>2, <3>1, <3>4, <3>5 DEF more
  <2> QED BY <2>1, <2>2
<1>3. tabs' = line /\ active' = c
  BY DEF Shell!OpenTab
<1> HIDE DEF line
<1>4. strip.tabs = line /\ strip.active = c
  OBVIOUS
<1> HIDE DEF strip
<1>5. Fronted(strip) /\ Shell!Show(strip)
  BY <1>2, <1>3, <1>4 DEF Fronted, Shell!Show
<1> QED BY <1>5, StripInv DEF Shell!OpenTab, Shell!listVars

LEMMA CloseTabInv == ASSUME ShellInv, NEW c \in Tabs, Shell!CloseTab(c) PROVE ShellInv' /\ Excused
<1> DEFINE line == Shell!Without(tabs, c)
           front == IF active = c THEN Shell!First(line) ELSE active
           strip == [tabs |-> line, active |-> front]
<1>1. /\ tabs \in Seq(Tabs) /\ Shell!IsInjective(tabs)
      /\ active # NoTab => active \in Shell!ToSet(tabs)
  BY DEF ShellInv, TabsTrue, Fronted, Shell!Shown
<1>2. line \in Seq(Tabs) /\ Shell!IsInjective(line) /\ Shell!ToSet(line) = Shell!ToSet(tabs) \ {c}
  BY <1>1, WithoutIs
<1>3. tabs' = line /\ active' = front
  BY DEF Shell!CloseTab
<1> HIDE DEF line
<1>4. front # NoTab => front \in Shell!ToSet(line)
  BY <1>1, <1>2, FirstIs
<1> HIDE DEF front
<1>5. strip.tabs = line /\ strip.active = front
  OBVIOUS
<1> HIDE DEF strip
<1>6. Fronted(strip) /\ Shell!Show(strip)
  BY <1>2, <1>3, <1>4, <1>5 DEF Fronted, Shell!Show
<1> QED BY <1>6, StripInv DEF Shell!CloseTab, Shell!listVars

(* What leaves the tabs and what is stored of them alone. *)
LEMMA TabsStay == ASSUME ShellInv, UNCHANGED <<tabs, active, restored, session>> PROVE TabsTrue' /\ Excused
BY DEF ShellInv, TabsTrue, Fronted, Stored, Shell!Shown, Excused

LEMMA TabCallInv ==
    ASSUME ShellInv, NEW s \in Shell!Slots, NEW call \in TabCall,
           tabCalls' = [tabCalls EXCEPT ![s] = call], profiles' \subseteq Tabs,
           UNCHANGED <<tabList, tabSeen, loading, loadFailed, tabs, active, restored, session>>
    PROVE  ShellInv' /\ Excused
<1>1. ShellRest'
  BY DEF ShellInv, ShellRest
<1> QED BY <1>1, TabsStay DEF ShellInv

LEMMA TabCallsInv ==
    ASSUME ShellInv, NEW s \in Shell!Slots,
           \/ Shell!Begin(s, "change", NoTab)
           \/ \E c \in Tabs, op \in {"disconnect", "delete"} : Shell!Begin(s, op, c)
           \/ Shell!Work(s) \/ Shell!Refuse(s) \/ Shell!ReadList(s)
    PROVE  ShellInv' /\ Excused
<1> USE DEF Shell!listVars, Shell!tabVars
<1>1. profiles \subseteq Tabs /\ tabCalls \in [Shell!Slots -> TabCall] /\ tabCalls[s] \in TabCall
  BY DEF ShellInv, ShellRest
<1>2. ASSUME NEW op \in {"change", "disconnect", "delete"}, NEW c \in Tabs \cup {NoTab},
             Shell!Begin(s, op, c)
      PROVE  ShellInv' /\ Excused
  <2>1. Shell!Sent(op, c) \in TabCall
    BY TabCallsTyped
  <2> QED BY <1>1, <1>2, <2>1, TabCallInv DEF Shell!Begin
<1>3. CASE Shell!Work(s)
  <2> DEFINE call == [tabCalls[s] EXCEPT !.at = "reading"]
  <2>1. call \in TabCall
    BY <1>1 DEF TabCall
  <2>2. profiles' \subseteq Tabs
    BY <1>1, <1>3 DEF Shell!Work
  <2>3. tabCalls' = [tabCalls EXCEPT ![s] = call]
    BY <1>3 DEF Shell!Work
  <2> HIDE DEF call
  <2> QED BY <1>3, <2>1, <2>2, <2>3, TabCallInv DEF Shell!Work
<1>4. CASE Shell!Refuse(s)
  BY <1>1, <1>4, TabCallsTyped, TabCallInv DEF Shell!Refuse
<1>5. CASE Shell!ReadList(s)
  <2> DEFINE call == [tabCalls[s] EXCEPT !.at = "read", !.snap = profiles]
  <2>1. call \in TabCall
    BY <1>1 DEF TabCall
  <2>2. tabCalls' = [tabCalls EXCEPT ![s] = call]
    BY <1>5 DEF Shell!ReadList
  <2> HIDE DEF call
  <2> QED BY <1>1, <1>5, <2>1, <2>2, TabCallInv DEF Shell!ReadList
<1> QED BY <1>2, <1>3, <1>4, <1>5

LEMMA TabListArrivesInv ==
    ASSUME ShellInv, NEW s \in Shell!Slots, Shell!ListArrives(s) PROVE ShellInv' /\ Excused
<1>1. tabCalls[s] \in TabCall /\ loading \in BOOLEAN /\ loadFailed \in BOOLEAN
  BY DEF ShellInv, ShellRest
<1>2. /\ tabList' \subseteq Tabs /\ tabSeen' = TRUE
      /\ tabCalls' = [tabCalls EXCEPT ![s] = Shell!Rest] /\ profiles' = profiles
  BY <1>1 DEF Shell!ListArrives, TabCall
<1>3. loading' \in BOOLEAN
  BY DEF Shell!ListArrives
<1>4. loadFailed' \in BOOLEAN
  BY DEF Shell!ListArrives
<1>5. ShellRest'
  BY <1>2, <1>3, <1>4, TabCallsTyped DEF ShellInv, ShellRest
<1> DEFINE now == IF tabCalls[s].op \in {"disconnect", "delete"}
                  THEN Shell!Dropped(tabCalls[s].of) ELSE Shell!Shown
<1>6. Fronted(now)
  BY DroppedFronted DEF ShellInv, TabsTrue
<1>7. Shell!Restore(now)
  BY DEF Shell!ListArrives
<1> HIDE DEF now
<1>8. TabsTrue' /\ Excused
  BY <1>2, <1>6, <1>7, RestoreInv DEF ShellInv
<1> QED BY <1>5, <1>8 DEF ShellInv

LEMMA TabListFailsInv ==
    ASSUME ShellInv, NEW s \in Shell!Slots, Shell!ListFails(s) PROVE ShellInv' /\ Excused
<1>1. /\ tabCalls' = [tabCalls EXCEPT ![s] = Shell!Rest]
      /\ UNCHANGED <<profiles, tabList, tabSeen>>
  BY DEF Shell!ListFails
<1>2. loading' \in BOOLEAN
  BY DEF Shell!ListFails
<1>3. loadFailed' \in BOOLEAN
  BY DEF Shell!ListFails
<1>4. loading' \/ loadFailed' \/ tabSeen'
  <2>1. loading \/ loadFailed \/ tabSeen
    BY DEF ShellInv, ShellRest
  <2>2. (tabSeen' <=> tabSeen)
    BY <1>1
  <2> QED BY <2>1, <2>2 DEF Shell!ListFails
<1>5. ShellRest'
  BY <1>1, <1>2, <1>3, <1>4, TabCallsTyped DEF ShellInv, ShellRest
<1> DEFINE now == IF tabCalls[s].op = "disconnect" THEN Shell!Dropped(tabCalls[s].of) ELSE Shell!Shown
<1>6. Fronted(now)
  BY DroppedFronted DEF ShellInv, TabsTrue
<1>7. Shell!Restore(now)
  BY DEF Shell!ListFails
<1> HIDE DEF now
<1>8. TabsTrue' /\ Excused
  BY <1>4, <1>6, <1>7, RestoreInv DEF ShellInv
<1> QED BY <1>5, <1>8 DEF ShellInv

(* Every step keeps the tabs true, and forgets no tab it has no reason to. *)
LEMMA ShellNextInv == ASSUME ShellInv, Shell!Next PROVE ShellInv' /\ Excused
<1>1. ASSUME NEW c \in Tabs, Shell!OpenTab(c) \/ Shell!CloseTab(c) PROVE ShellInv' /\ Excused
  BY <1>1, OpenTabInv, CloseTabInv
<1>2. ASSUME NEW s \in Shell!Slots, Shell!ListArrives(s) \/ Shell!ListFails(s)
      PROVE  ShellInv' /\ Excused
  BY <1>2, TabListArrivesInv, TabListFailsInv
<1> QED BY <1>1, <1>2, TabCallsInv DEF Shell!Next

LEMMA ShellStays == ASSUME ShellInv, UNCHANGED shellVars PROVE ShellInv'
<1>1. UNCHANGED <<profiles, tabList, tabSeen, loading, loadFailed, tabCalls, tabs, active, restored, session>>
  BY DEF shellVars
<1>2. ShellRest'
  BY <1>1 DEF ShellInv, ShellRest
<1> QED BY <1>1, <1>2, TabsStay DEF ShellInv

--------------------------------------------------------------------------------
(* The window. *)

LEMMA WindowInits ==
    Init => DockInv /\ SettingsInv /\ ListInv /\ FormInv /\ ShellInv
BY DockInitInv, SettingsInitInv, ListInitInv, FormInitInv, ShellInitInv DEF Init

LEMMA DockHolds == Spec => []DockInv
<1>1. Init => DockInv
  BY WindowInits
<1>2. DockInv /\ [Next]_vars => DockInv'
  <2> SUFFICES ASSUME DockInv, [Next]_vars PROVE DockInv'
    OBVIOUS
  <2>1. CASE OnlyDock /\ Dock!Next
    BY <2>1, DockNextInv
  <2>2. CASE OnlyList \/ OnlyShell \/ OnlyForm \/ OnlySettings \/ UNCHANGED vars
    <3>1. UNCHANGED dockVars
      BY <2>2 DEF OnlyList, OnlyShell, OnlyForm, OnlySettings, vars
    <3> QED BY <3>1, DockStays
  <2> QED BY <2>1, <2>2 DEF Next
<1> QED BY <1>1, <1>2, PTL DEF Spec

LEMMA SettingsHold == Spec => []SettingsInv
<1>1. Init => SettingsInv
  BY WindowInits
<1>2. SettingsInv /\ [Next]_vars => SettingsInv'
  <2> SUFFICES ASSUME SettingsInv, [Next]_vars PROVE SettingsInv'
    OBVIOUS
  <2>1. CASE OnlySettings /\ Settings!Next
    BY <2>1, SettingsNextInv
  <2>2. CASE OnlyList \/ OnlyShell \/ OnlyForm \/ OnlyDock \/ UNCHANGED vars
    <3>1. UNCHANGED settingsVars
      BY <2>2 DEF OnlyList, OnlyShell, OnlyForm, OnlyDock, vars
    <3> QED BY <3>1, SettingsStay
  <2> QED BY <2>1, <2>2 DEF Next
<1> QED BY <1>1, <1>2, PTL DEF Spec

LEMMA ListHolds == Spec => []ListInv
<1>1. Init => ListInv
  BY WindowInits
<1>2. ListInv /\ [Next]_vars => ListInv'
  <2> SUFFICES ASSUME ListInv, [Next]_vars PROVE ListInv'
    OBVIOUS
  <2>1. CASE OnlyList /\ List!Next
    BY <2>1, ListNextInv
  <2>2. CASE OnlyShell \/ OnlyForm \/ OnlySettings \/ OnlyDock \/ UNCHANGED vars
    <3>1. UNCHANGED listVars
      BY <2>2 DEF OnlyShell, OnlyForm, OnlySettings, OnlyDock, vars
    <3> QED BY <3>1, ListStays
  <2> QED BY <2>1, <2>2 DEF Next
<1> QED BY <1>1, <1>2, PTL DEF Spec

LEMMA FormHolds == Spec => []FormInv
<1>1. Init => FormInv
  BY WindowInits
<1>2. FormInv /\ [Next]_vars => FormInv'
  <2> SUFFICES ASSUME FormInv, [Next]_vars PROVE FormInv'
    OBVIOUS
  <2>1. CASE OnlyForm /\ Form!Next
    BY <2>1, FormNextInv
  <2>2. CASE OnlyList \/ OnlyShell \/ OnlySettings \/ OnlyDock \/ UNCHANGED vars
    <3>1. UNCHANGED formVars
      BY <2>2 DEF OnlyList, OnlyShell, OnlySettings, OnlyDock, vars
    <3> QED BY <3>1, FormStays
  <2> QED BY <2>1, <2>2 DEF Next
<1> QED BY <1>1, <1>2, PTL DEF Spec

LEMMA ShellHolds == Spec => []ShellInv
<1>1. Init => ShellInv
  BY WindowInits
<1>2. ShellInv /\ [Next]_vars => ShellInv'
  <2> SUFFICES ASSUME ShellInv, [Next]_vars PROVE ShellInv'
    OBVIOUS
  <2>1. CASE OnlyShell /\ Shell!Next
    BY <2>1, ShellNextInv
  <2>2. CASE OnlyList \/ OnlyForm \/ OnlySettings \/ OnlyDock \/ UNCHANGED vars
    <3>1. UNCHANGED shellVars
      BY <2>2 DEF OnlyList, OnlyForm, OnlySettings, OnlyDock, vars
    <3> QED BY <3>1, ShellStays
  <2> QED BY <2>1, <2>2 DEF Next
<1> QED BY <1>1, <1>2, PTL DEF Spec

(* Dock.tsx, useAgent.ts: the conversation in the dock has nothing missing up to the
   number it is at, and once nothing is on its way it is where Go is, for any number of
   conversations, events and calls. *)
THEOREM DockStaysTrue == Spec => []DockIsTrue
<1>1. DockInv => DockIsTrue
  BY DockInvImplies DEF DockInv, DockIsTrue
<1> QED BY <1>1, DockHolds, PTL

(* useSettings.ts: with every write, read and notice over, and none of them failed or
   crossed, the window shows the settings that Go stores. *)
THEOREM SettingsComeBack == Spec => []ShownIsStored
<1>1. SettingsInv => ShownIsStored
  BY SettingsInvImplies DEF ShownIsStored
<1> QED BY <1>1, SettingsHold, PTL

(* useSettings.ts: a save that was due when the reset was pressed reaches Go before the
   reset does, however long the chain of writes is. *)
THEOREM ResetComesLast == Spec => []ResetIsAfterSaves
<1>1. SettingsInv => ResetIsAfterSaves
  BY SettingsInvImplies DEF ResetIsAfterSaves
<1> QED BY <1>1, SettingsHold, PTL

(* useConnectionProfiles.ts: with no call under way, the connection list is what Go has,
   unless a reading of it was missed or Go has changed for another reason (the global
   credentials, an import) since the one shown, for any number of profiles, calls and
   such changes, in any order of their answers and readings. *)
THEOREM ListCatchesUp == Spec => []ListIsFresh
<1>1. ListInv => ListIsFresh
  BY ListInvImplies DEF ListIsFresh
<1> QED BY <1>1, ListHolds, PTL

(* NewConnectionDialog.tsx: the verdict under a form is about the profile that saving it
   would store, for every family and any number of events, tests and saves. *)
THEOREM VerdictsAreOfTheForm == Spec => []VerdictIsOfTheForm
<1>1. FormInv => VerdictIsOfTheForm
  BY FormInvImplies DEF VerdictIsOfTheForm
<1> QED BY <1>1, FormHolds, PTL

(* connectionDraft.ts, bridge/connection.go: a stored profile that is opened and saved
   untouched is stored as it was, secrets included, for every family; and an anonymous
   connection keeps no secret, for the ten families that do not submit every blank as
   kept (mqtt, nats, activemq, ibmmq and solace do, and keep the secrets of the mechanism
   they left). *)
THEOREM SecretsFollowForms == Spec => []SecretsFollowTheForm
<1>1. FormInv => SecretsFollowTheForm
  BY FormInvImplies DEF SecretsFollowTheForm
<1> QED BY <1>1, FormHolds, PTL

(* DesignApp.tsx, session.ts: a stored tab is forgotten only by a window that has it
   open, or because a list that was read does not have its profile; a list that could
   not be read costs none, for any number of connections and calls. *)
THEOREM StoredTabsKept == Spec => StoredTabKept
<1>1. ShellInv /\ [Next]_vars => [Excused]_session
  <2> SUFFICES ASSUME ShellInv, [Next]_vars, session' # session PROVE Excused
    OBVIOUS
  <2>1. CASE OnlyShell /\ Shell!Next
    BY <2>1, ShellNextInv
  <2>2. CASE OnlyList \/ OnlyForm \/ OnlySettings \/ OnlyDock \/ UNCHANGED vars
    <3>1. UNCHANGED shellVars
      BY <2>2 DEF OnlyList, OnlyForm, OnlySettings, OnlyDock, vars
    <3> QED BY <3>1 DEF shellVars
  <2> QED BY <2>1, <2>2 DEF Next
<1>2. Spec => [][Excused]_session
  BY <1>1, ShellHolds, PTL DEF Spec
<1> QED BY <1>2, PTL DEF StoredTabKept, Shell!StoredTabKept, Excused

(* Every part of the window has its shape, what it says is under way has the call it
   waits for, a row has one action at a time, and the tab in front is an open one. *)
THEOREM PartsAreConsistent == Spec => []WindowConsistent
<1>1. DockInv /\ SettingsInv /\ ListInv /\ FormInv /\ ShellInv => WindowConsistent
  <2> SUFFICES ASSUME DockInv, SettingsInv, ListInv, FormInv, ShellInv
               PROVE  WindowConsistent
    OBVIOUS
  <2>1. Dock!TypeOK /\ Dock!ReadingHasCall
    BY DEF DockInv
  <2>2. Settings!TypeOK
    BY DEF SettingsInv
  <2>3. List!TypeOK /\ List!PendingHasCall /\ List!OneRowAtATime
    BY ListInvImplies, OneRow DEF ListInv
  <2>4. Form!TypeOK /\ Form!ProbingHasProbe
    BY FormInvImplies
  <2>5. Shell!TypeOK /\ Shell!FrontIsOpen
    BY ShellInvImplies
  <2> QED BY <2>1, <2>2, <2>3, <2>4, <2>5 DEF WindowConsistent
<1> QED BY <1>1, DockHolds, SettingsHold, ListHolds, FormHolds, ShellHolds, PTL
================================================================================
