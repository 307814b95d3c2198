------------------------- MODULE ShmTransportProofs -------------------------
(***************************************************************************)
(* Theorems about ShmTransport, for any number of bindings, clients and    *)
(* servers, when a client closes a binding only at rest.                   *)
(***************************************************************************)
EXTENDS ShmTransport, FiniteSetTheorems, TLAPS

InQueue(b)  == \E i \in DOMAIN pending : pending[i] = b
Unserved(b) == \A s \in Servers : todo[s] # b

(* The queue holds each binding that waits for a thread, once; each        *)
(* binding has a thread of its own while it is active or being destroyed.  *)
EntryInv ==
    /\ ~wild /\ in = out + Len(pending)
    /\ \A i, j \in DOMAIN pending : pending[i] = pending[j] => i = j
    /\ \A b \in Bindings :
          InQueue(b) <=> \/ estate[b] = "Pending"
                         \/ estate[b] = "Dead" /\ Unserved(b)
    /\ \A b \in Bindings : estate[b] = "Active" => ~Unserved(b)
    /\ \A s \in Servers :
          /\ at[s] \in {"look", "take", "await"} <=> todo[s] = NoBinding
          /\ todo[s] # NoBinding =>
                 estate[todo[s]] = IF at[s] = "bury" THEN "Dead" ELSE "Active"
    /\ \A s, u \in Servers : todo[s] = todo[u] /\ todo[s] # NoBinding => s = u

(* A binding is opened, closed at rest, told so once, and destroyed.       *)
Life(b) ==
    /\ alive[b] = "both" =>
           ~ep[b].dead /\ estate[b] \in {"Idle", "Pending", "Active"}
    /\ alive[b] = "closing" =>
           /\ ~ep[b].dead /\ estate[b] = "Idle" /\ ep[b].listed = 0
           /\ mu[b] = Nobody
    /\ alive[b] = "none" =>
           /\ mu[b] = Nobody
           /\ IF ep[b].dead
              THEN \/ estate[b] = "Idle" /\ ep[b].listed = 1
                   \/ estate[b] \in {"Dead", "Unbound"} /\ ep[b].listed = 0
              ELSE estate[b] = "Unbound" /\ ep[b] = NewEp

(* What has come and is not acknowledged is in the FIFO, or the binding is *)
(* on its way through the entry.                                           *)
Noticed(b) == ~ep[b].dead =>
    \/ estate[b] \in {"Pending", "Active"} /\ ep[b].listed = 0
                                           /\ ep[b].ack < ep[b].val
    \/ estate[b] = "Idle" /\ ep[b].listed = 1 /\ ep[b].ack < ep[b].val
    \/ estate[b] \in {"Idle", "Unbound"} /\ ep[b].listed = 0
           /\ ep[b].ack = ep[b].val /\ call[b] = ep[b].val

\* What a thread is about to acknowledge has come and been received.
Acks(s) ==
    /\ at[s] \in {"dispatch", "reply", "ack"} => seen[s] <= ep[todo[s]].val
    /\ at[s] \in {"reply", "ack"} => seen[s] <= call[todo[s]]

Quiet(b)    == ep[b].val = call[b] /\ replies[b] = call[b] /\ ccall[b] = call[b]
Replying(b) == \E s \in Servers : todo[s] = b /\ at[s] = "reply"

(* One call at a time is under way on a binding, its holder's: it is not   *)
(* received, executed, or answered.                                        *)
Underway(b, c) ==
    /\ request[b] = c /\ ep[b].val = ccall[b] + 1
    /\ \/ /\ call[b] = ccall[b] /\ replies[b] = ccall[b]
          /\ executed[c] + 1 = calls[c] /\ ~Replying(b)
       \/ /\ call[b] = ccall[b] + 1 /\ replies[b] = ccall[b]
          /\ executed[c] = calls[c] /\ Replying(b)
       \/ /\ call[b] = ccall[b] + 1 /\ replies[b] = ccall[b] + 1
          /\ executed[c] = calls[c] /\ ~Replying(b) /\ reply[b] = c

Held(b) ==
    /\ ~ep[b].dead /\ alive[b] # "closing" /\ mu[b] = Nobody
           => Quiet(b) /\ ~Replying(b)
    /\ mu[b] # Nobody => BindingOf[mu[b]] = b /\ cpc[mu[b]] # "out"

Calling(c, b) ==
    /\ cpc[c] = "out" => executed[c] = calls[c]
    /\ cpc[c] = "marshal" => /\ mu[b] = c /\ executed[c] + 1 = calls[c]
                             /\ Quiet(b) /\ ~Replying(b)
    /\ cpc[c] = "sent" => mu[b] = c /\ Underway(b, c)
    /\ cpc[c] = "received" => /\ mu[b] = c /\ executed[c] = calls[c]
                              /\ Quiet(b) /\ ~Replying(b) /\ reply[b] = c

IInv ==
    /\ TypeOK /\ EntryInv
    /\ \A b \in Bindings : Life(b) /\ Noticed(b) /\ Held(b)
    /\ \A s \in Servers : Acks(s)
    /\ \A c \in Clients : Calling(c, BindingOf[c])

EpType == [val : Nat, ack : Nat, listed : Nat, dead : BOOLEAN]

-----------------------------------------------------------------------------
(* The queue.                                                              *)

LEMMA RemoveAbsent ==
    ASSUME pending \in Seq(Bindings), NEW b, ~InQueue(b)
    PROVE  RemoveFirst(pending, b) = pending
<1>1. ~\E i \in 1 .. Len(pending) : pending[i] = b
  BY DEF InQueue
<1> QED BY <1>1 DEF RemoveFirst

LEMMA AppendQueue ==
    ASSUME pending \in Seq(Bindings), NEW b \in Bindings, ~InQueue(b),
           pending' = Append(pending, b),
           \A i, j \in DOMAIN pending : pending[i] = pending[j] => i = j
    PROVE  /\ pending' \in Seq(Bindings) /\ Len(pending') = Len(pending) + 1
           /\ \A i, j \in DOMAIN pending' : pending'[i] = pending'[j] => i = j
           /\ \A x \in Bindings : InQueue(x)' <=> InQueue(x) \/ x = b
<1>1. /\ pending' \in Seq(Bindings) /\ Len(pending') = Len(pending) + 1
      /\ Len(pending) \in Nat
      /\ DOMAIN pending = 1 .. Len(pending)
      /\ DOMAIN pending' = 1 .. (Len(pending) + 1)
      /\ \A i \in DOMAIN pending : pending'[i] = pending[i]
      /\ pending'[Len(pending) + 1] = b
  OBVIOUS
<1>2. \A i, j \in DOMAIN pending' : pending'[i] = pending'[j] => i = j
  BY <1>1 DEF InQueue
<1>3. \A x \in Bindings : InQueue(x)' <=> InQueue(x) \/ x = b
  BY <1>1 DEF InQueue
<1> QED BY <1>1, <1>2, <1>3

LEMMA TailQueue ==
    ASSUME pending \in Seq(Bindings), pending # <<>>, pending' = Tail(pending),
           \A i, j \in DOMAIN pending : pending[i] = pending[j] => i = j
    PROVE  /\ pending' \in Seq(Bindings) /\ Len(pending) = Len(pending') + 1
           /\ Len(pending') \in Nat
           /\ \A i, j \in DOMAIN pending' : pending'[i] = pending'[j] => i = j
           /\ Head(pending) \in Bindings /\ InQueue(Head(pending))
           /\ \A x \in Bindings :
                 InQueue(x)' <=> InQueue(x) /\ x # Head(pending)
<1>1. /\ pending' \in Seq(Bindings) /\ Len(pending) = Len(pending') + 1
      /\ Len(pending) \in Nat /\ Len(pending') \in Nat
      /\ Head(pending) = pending[1] /\ Head(pending) \in Bindings
      /\ DOMAIN pending = 1 .. Len(pending)
      /\ DOMAIN pending' = 1 .. Len(pending')
      /\ \A i \in DOMAIN pending' : pending'[i] = pending[i + 1]
  OBVIOUS
<1>2. \A i, j \in DOMAIN pending' : pending'[i] = pending'[j] => i = j
  BY <1>1
<1>3. InQueue(Head(pending))
  BY <1>1 DEF InQueue
<1>4. ASSUME NEW x \in Bindings, InQueue(x), x # Head(pending)
      PROVE  InQueue(x)'
  <2>1. PICK i \in DOMAIN pending : pending[i] = x
    BY <1>4 DEF InQueue
  <2>2. i # 1 /\ i - 1 \in DOMAIN pending' /\ pending'[i - 1] = x
    BY <1>1, <1>4, <2>1
  <2> QED BY <2>2 DEF InQueue
<1>5. ASSUME NEW x \in Bindings, InQueue(x)'
      PROVE  InQueue(x) /\ x # Head(pending)
  <2>1. PICK i \in DOMAIN pending' : pending'[i] = x
    BY <1>5 DEF InQueue
  <2>2. i + 1 \in DOMAIN pending /\ pending[i + 1] = x /\ i + 1 # 1
        /\ 1 \in DOMAIN pending
    BY <1>1, <2>1
  <2> QED BY <1>1, <2>2 DEF InQueue
<1> QED BY <1>1, <1>2, <1>3, <1>4, <1>5

-----------------------------------------------------------------------------
(* A step that is about one binding leaves what concerns the others alone. *)

OwnPart(b) ==
    /\ TypeOK' /\ EntryInv'
    /\ Life(b)' /\ Noticed(b)' /\ Held(b)'
    /\ \A s \in Servers : todo'[s] = b => Acks(s)'
    /\ \A c \in Clients : BindingOf[c] = b => Calling(c, b)'

Elsewhere(b) ==
    /\ \A x \in Bindings \ {b} :
          /\ ep'[x] = ep[x] /\ estate'[x] = estate[x] /\ alive'[x] = alive[x]
          /\ mu'[x] = mu[x] /\ ccall'[x] = ccall[x] /\ replies'[x] = replies[x]
          /\ call'[x] = call[x] /\ request'[x] = request[x]
          /\ reply'[x] = reply[x]
    /\ \A s \in Servers : todo'[s] # b =>
          \/ at'[s] = at[s] /\ todo'[s] = todo[s] /\ seen'[s] = seen[s]
          \/ todo'[s] = NoBinding /\ todo[s] \in {b, NoBinding}
    /\ \A s \in Servers : todo'[s] = b => todo[s] \in {b, NoBinding}
    /\ \A c \in Clients : BindingOf[c] # b =>
          cpc'[c] = cpc[c] /\ calls'[c] = calls[c] /\ executed'[c] = executed[c]

LEMMA OtherParts ==
    ASSUME IInv, NEW b \in Bindings, Elsewhere(b), OwnPart(b)
    PROVE  IInv'
<1>1. ASSUME NEW x \in Bindings, x # b PROVE Replying(x)' <=> Replying(x)
  BY <1>1, EntryAssumption DEF Replying, Elsewhere
<1>2. ASSUME NEW x \in Bindings, x # b PROVE Life(x)' /\ Noticed(x)'
  <2>1. /\ ep'[x] = ep[x] /\ estate'[x] = estate[x] /\ alive'[x] = alive[x]
        /\ mu'[x] = mu[x] /\ call'[x] = call[x] /\ Life(x) /\ Noticed(x)
    BY <1>2 DEF IInv, Elsewhere
  <2>2. Life(x)'
    BY <2>1 DEF Life
  <2> QED BY <2>1, <2>2 DEF Noticed
<1>3. ASSUME NEW x \in Bindings, x # b PROVE Held(x)'
  <2>1. mu[x] # Nobody => mu[x] \in Clients
    BY DEF IInv, TypeOK
  <2>2. /\ ep'[x] = ep[x] /\ alive'[x] = alive[x]
        /\ mu'[x] = mu[x] /\ ccall'[x] = ccall[x] /\ replies'[x] = replies[x]
        /\ call'[x] = call[x] /\ Held(x)
        /\ mu[x] # Nobody /\ BindingOf[mu[x]] = x => cpc'[mu[x]] = cpc[mu[x]]
    BY <1>3, <2>1 DEF IInv, Elsewhere
  <2> QED BY <1>1, <1>3, <2>2 DEF Held, Quiet
<1>4. ASSUME NEW s \in Servers PROVE Acks(s)'
  <2>1. CASE todo'[s] = b
    BY <2>1 DEF OwnPart
  <2>2. CASE todo'[s] = NoBinding
    BY <2>2 DEF OwnPart, EntryInv, Acks
  <2>3. CASE todo'[s] \notin {b, NoBinding}
    <3>1. at'[s] = at[s] /\ todo'[s] = todo[s] /\ seen'[s] = seen[s]
      BY <2>3 DEF Elsewhere
    <3>2. todo[s] \in Bindings \ {b}
      BY <2>3, <3>1 DEF IInv, TypeOK, EntryTypeOK
    <3> QED BY <3>1, <3>2 DEF IInv, Acks, Elsewhere
  <2> QED BY <2>1, <2>2, <2>3
<1>5. ASSUME NEW c \in Clients PROVE Calling(c, BindingOf[c])'
  <2>1. BindingOf[c] \in Bindings
    BY ShmAssumption
  <2>2. CASE BindingOf[c] = b
    BY <2>2 DEF OwnPart
  <2>3. CASE BindingOf[c] # b
    <3> DEFINE x == BindingOf[c]
    <3>1. /\ ep'[x] = ep[x] /\ mu'[x] = mu[x] /\ ccall'[x] = ccall[x]
          /\ replies'[x] = replies[x] /\ call'[x] = call[x]
          /\ request'[x] = request[x] /\ reply'[x] = reply[x]
          /\ cpc'[c] = cpc[c] /\ calls'[c] = calls[c]
          /\ executed'[c] = executed[c]
      BY <2>1, <2>3 DEF Elsewhere
    <3>2. Calling(c, x) /\ (Replying(x)' <=> Replying(x))
      BY <1>1, <2>1, <2>3 DEF IInv
    <3> HIDE DEF x
    <3>3. Quiet(x)' <=> Quiet(x)
      BY <3>1 DEF Quiet
    <3>4. Underway(x, c)' <=> Underway(x, c)
      BY <3>1, <3>2 DEF Underway
    <3>5. Calling(c, x)'
      BY <3>1, <3>2, <3>3, <3>4 DEF Calling
    <3> QED BY <3>5 DEF x
  <2> QED BY <2>2, <2>3
<1> QED BY <1>2, <1>3, <1>4, <1>5 DEF IInv, OwnPart

-----------------------------------------------------------------------------
(* Clients.                                                                *)

LEMMA InitInv == Init => IInv
<1> SUFFICES ASSUME Init PROVE IInv
  OBVIOUS
<1> USE DEF Init, EntryInit
<1>1. EntryTypeOK
  <2>1. NewEp \in EpType /\ pending \in Seq(Bindings)
    BY DEF NewEp, EpType
  <2> QED BY <2>1 DEF EntryTypeOK, EpType
<1>2. TypeOK
  BY <1>1, ShmAssumption DEF TypeOK
<1>3. EntryInv
  BY EntryAssumption DEF EntryInv, InQueue, Unserved
<1>4. \A b \in Bindings : Life(b) /\ Noticed(b) /\ Held(b)
  BY DEF Life, Noticed, Held, Quiet, Replying, NewEp
<1>5. \A s \in Servers : Acks(s)
  BY DEF Acks
<1>6. \A c \in Clients : Calling(c, BindingOf[c])
  BY DEF Calling
<1> QED BY <1>2, <1>3, <1>4, <1>5, <1>6 DEF IInv

(* A step of a client's thread or of a closing leaves the entry alone.     *)
LEMMA EntryKept ==
    ASSUME EntryInv, UNCHANGED entryVars PROVE EntryInv'
  BY DEF EntryInv, InQueue, Unserved, entryVars

\* Nobody serves a binding that is idle, unbound or waiting.
LEMMA NobodyServes ==
    ASSUME EntryInv, NEW b \in Bindings, estate[b] \notin {"Active", "Dead"}
    PROVE  Unserved(b)
  BY EntryAssumption DEF EntryInv, Unserved

\* No client's thread is between InitCall and AckReceive.
LEMMA NobodyCalls ==
    ASSUME IInv, NEW b \in Bindings, mu[b] = Nobody,
           NEW c \in Clients, BindingOf[c] = b
    PROVE  cpc[c] = "out" /\ executed[c] = calls[c]
  BY ShmAssumption DEF IInv, TypeOK, Calling

LEMMA OpenInv == ASSUME IInv, NEW b \in Bindings, Open(b) PROVE IInv'
<1>1. /\ estate[b] = "Unbound" /\ estate' = [estate EXCEPT ![b] = "Idle"]
      /\ alive[b] = "none" /\ alive' = [alive EXCEPT ![b] = "both"]
      /\ ~ep[b].dead
      /\ UNCHANGED <<pending, in, out, todo, at, seen, wild, ep, cpc, calls, result,
                     mu, ccall, replies, call, request, reply, executed>>
  BY DEF Open, Bind, entryVars, bufferVars
<1>2. TypeOK'
  BY <1>1 DEF IInv, TypeOK, EntryTypeOK
<1>3. estate'[b] = "Idle" /\ alive'[b] = "both"
      /\ \A x \in Bindings \ {b} : estate'[x] = estate[x] /\ alive'[x] = alive[x]
  BY <1>1 DEF IInv, TypeOK, EntryTypeOK
<1>4. Unserved(b) /\ ~InQueue(b)
  BY <1>1, NobodyServes DEF IInv, EntryInv
<1>5. EntryInv'
  <2>1. \A x \in Bindings : /\ InQueue(x)' <=> InQueue(x)
                            /\ Unserved(x)' <=> Unserved(x)
    BY <1>1 DEF InQueue, Unserved
  <2>2. \A s \in Servers : todo[s] \in Bindings \cup {NoBinding} /\ todo[s] # b
    BY <1>4 DEF Unserved, IInv, TypeOK, EntryTypeOK
  <2> QED BY <1>1, <1>3, <1>4, <2>1, <2>2 DEF IInv, EntryInv
<1>6. Life(b)' /\ Noticed(b)' /\ Held(b)'
  BY <1>1, <1>3 DEF IInv, Life, Noticed, Held, Quiet, Replying, NewEp
<1>7. \A s \in Servers : todo'[s] # b
  BY <1>1, <1>4 DEF Unserved
<1>8. ASSUME NEW c \in Clients, BindingOf[c] = b PROVE Calling(c, b)'
  BY <1>1, <1>8, NobodyCalls DEF IInv, Life, Calling
<1>9. Elsewhere(b)
  BY <1>1, <1>3 DEF Elsewhere
<1> QED BY <1>2, <1>5, <1>6, <1>7, <1>8, <1>9, OtherParts DEF OwnPart

LEMMA CloseRxInv ==
    ASSUME Settled, IInv, NEW b \in Bindings, CloseRx(b) PROVE IInv'
<1>1. /\ alive[b] = "both" /\ alive' = [alive EXCEPT ![b] = "closing"]
      /\ replies' = [replies EXCEPT ![b] = 0] /\ mu[b] = Nobody
      /\ estate[b] = "Idle" /\ ep[b].listed = 0 /\ Unserved(b)
      /\ UNCHANGED <<entryVars, ep, cpc, calls, result, mu, ccall, call, request,
                     reply, executed>>
  BY DEF CloseRx, AtRest, Unserved
<1>2. TypeOK'
  BY <1>1 DEF IInv, TypeOK, EntryTypeOK, entryVars
<1>3. EntryInv'
  BY <1>1, EntryKept DEF IInv
<1>4. alive'[b] = "closing"
      /\ \A x \in Bindings \ {b} : replies'[x] = replies[x] /\ alive'[x] = alive[x]
  BY <1>1 DEF IInv, TypeOK
<1>5. Life(b)' /\ Noticed(b)' /\ Held(b)'
  BY <1>1, <1>4 DEF IInv, Life, Noticed, Held, entryVars
<1>6. \A s \in Servers : todo'[s] # b
  BY <1>1 DEF Unserved, entryVars
<1>7. ASSUME NEW c \in Clients, BindingOf[c] = b PROVE Calling(c, b)'
  BY <1>1, <1>7, NobodyCalls DEF Calling
<1>8. Elsewhere(b)
  BY <1>1, <1>4 DEF Elsewhere, entryVars
<1> QED BY <1>2, <1>3, <1>5, <1>6, <1>7, <1>8, OtherParts DEF OwnPart

LEMMA CloseTxInv ==
    ASSUME IInv, NEW b \in Bindings, CloseTx(b) PROVE IInv'
<1>1. /\ alive[b] = "closing" /\ alive' = [alive EXCEPT ![b] = "none"]
      /\ ep' = [ep EXCEPT ![b] = Closed(ep[b])]
      /\ UNCHANGED <<entryVars, cpc, calls, result, mu, ccall, replies, call,
                     request, reply, executed>>
  BY DEF CloseTx, bufferVars
<1>2. estate[b] = "Idle" /\ mu[b] = Nobody /\ Unserved(b) /\ ep[b].listed = 0
  BY <1>1, NobodyServes DEF IInv, Life
<1>3. ep \in [Bindings -> EpType] /\ ep[b] \in EpType
  BY DEF IInv, TypeOK, EntryTypeOK, EpType
<1>4. Closed(ep[b]) \in EpType /\ Closed(ep[b]).dead /\ Closed(ep[b]).listed = 1
  BY <1>2, <1>3 DEF Closed, EpType
<1>5. /\ alive'[b] = "none" /\ ep' \in [Bindings -> EpType]
      /\ ep'[b].dead /\ ep'[b].listed = 1
      /\ \A x \in Bindings \ {b} : ep'[x] = ep[x] /\ alive'[x] = alive[x]
  BY <1>1, <1>3, <1>4 DEF IInv, TypeOK
<1>6. TypeOK'
  BY <1>1, <1>5 DEF IInv, TypeOK, EntryTypeOK, EpType, entryVars
<1>7. EntryInv'
  BY <1>1, EntryKept DEF IInv
<1>8. Life(b)' /\ Noticed(b)' /\ Held(b)'
  BY <1>1, <1>2, <1>5 DEF Life, Noticed, Held, entryVars
<1>9. \A s \in Servers : todo'[s] # b
  BY <1>1, <1>2 DEF Unserved, entryVars
<1>10. ASSUME NEW c \in Clients, BindingOf[c] = b PROVE Calling(c, b)'
  BY <1>1, <1>2, <1>10, NobodyCalls DEF Calling
<1>11. Elsewhere(b)
  BY <1>1, <1>5 DEF Elsewhere, entryVars
<1> QED BY <1>6, <1>7, <1>8, <1>9, <1>10, <1>11, OtherParts DEF OwnPart

LEMMA Typed ==
    ASSUME TypeOK, NEW b \in Bindings
    PROVE  /\ ep[b].val \in Nat /\ ep[b].ack \in Nat /\ ep[b].listed \in Nat
           /\ ep[b].dead \in BOOLEAN /\ in \in Nat /\ out \in Nat
           /\ call[b] \in Nat /\ ccall[b] \in Nat /\ replies[b] \in Nat
           /\ alive[b] \in {"both", "closing", "none"}
           /\ estate[b] \in {"Unbound", "Idle", "Pending", "Active", "Dead"}
           /\ pending \in Seq(Bindings) /\ Len(pending) \in Nat
           /\ ep \in [Bindings -> EpType] /\ ep[b] \in EpType
<1>1. ep \in [Bindings -> EpType]
  BY DEF TypeOK, EntryTypeOK, EpType
<1>2. /\ ep[b].val \in Nat /\ ep[b].ack \in Nat /\ ep[b].listed \in Nat
      /\ ep[b].dead \in BOOLEAN /\ ep[b] \in EpType
  BY <1>1 DEF EpType
<1>3. pending \in Seq(Bindings)
  BY DEF TypeOK, EntryTypeOK
<1>4. Len(pending) \in Nat
  BY <1>3
<1> QED BY <1>1, <1>2, <1>3, <1>4 DEF TypeOK, EntryTypeOK

\* Whatever is listed is news of an idle binding.
LEMMA ListedIdle ==
    ASSUME IInv, NEW b \in Bindings, ep[b].listed > 0
    PROVE  /\ estate[b] = "Idle" /\ ep[b].listed = 1
           /\ alive[b] = IF ep[b].dead THEN "none" ELSE "both"
<1>1. alive[b] \in {"both", "closing", "none"} /\ ep[b].listed # 0
  <2>1. TypeOK
    BY DEF IInv
  <2>2. alive[b] \in {"both", "closing", "none"} /\ ep[b].listed \in Nat
    BY <2>1, Typed
  <2>3. ep[b].listed # 0
    BY <2>2
  <2> QED BY <2>2, <2>3
<1>2. Life(b) /\ Noticed(b)
  BY DEF IInv
<1>3. CASE ep[b].dead
  BY <1>1, <1>2, <1>3 DEF Life
<1>4. CASE ~ep[b].dead
  <2>1. NewEp.listed = 0
    BY DEF NewEp
  <2>2. estate[b] = "Idle" /\ ep[b].listed = 1
    BY <1>1, <1>2, <1>4 DEF Noticed
  <2>3. alive[b] = "both"
    BY ONLY <1>1, <1>2, <1>4, <2>1 DEF Life
  <2> QED BY <1>4, <2>2, <2>3
<1> QED BY <1>3, <1>4

LEMMA NotifiedInv ==
    ASSUME IInv, NEW b \in Bindings, Notified(b) PROVE IInv'
<1> DEFINE st == IF ep[b].dead THEN "Dead" ELSE "Pending"
<1>1. ep[b].listed > 0
  BY DEF Notified, Notify
<1>2. /\ estate[b] = "Idle" /\ ep[b].listed = 1
      /\ alive[b] = IF ep[b].dead THEN "none" ELSE "both"
  BY <1>1, ListedIdle
<1>3. /\ ep' = [ep EXCEPT ![b].listed = @ - 1] /\ Queued(b, st)
      /\ UNCHANGED <<out, todo, at, seen, wild, clientVars, bufferVars>>
  BY <1>2 DEF Notified, Notify
<1> HIDE DEF st
<1>4. st \in {"Dead", "Pending"} /\ (st = "Dead" <=> ep[b].dead)
  BY DEF st
<1>5. Unserved(b) /\ ~InQueue(b)
  BY <1>2, NobodyServes DEF IInv, EntryInv
<1>6. /\ estate' = [estate EXCEPT ![b] = st] /\ in' = in + 1
      /\ pending' = Append(pending, b)
  BY <1>3, <1>5, RemoveAbsent DEF Queued, IInv, TypeOK, EntryTypeOK
<1>7. /\ pending' \in Seq(Bindings) /\ Len(pending') = Len(pending) + 1
      /\ \A i, j \in DOMAIN pending' : pending'[i] = pending'[j] => i = j
      /\ \A x \in Bindings : InQueue(x)' <=> InQueue(x) \/ x = b
  BY <1>5, <1>6, AppendQueue DEF IInv, TypeOK, EntryTypeOK, EntryInv
<1>8. /\ estate'[b] = st
      /\ \A x \in Bindings \ {b} : estate'[x] = estate[x]
      /\ estate' \in [Bindings -> {"Unbound", "Idle", "Pending", "Active", "Dead"}]
  BY <1>4, <1>6 DEF IInv, TypeOK, EntryTypeOK
<1>9. /\ ep' \in [Bindings -> EpType] /\ ep[b] \in EpType
      /\ ep'[b] = [ep[b] EXCEPT !.listed = 0]
      /\ \A x \in Bindings \ {b} : ep'[x] = ep[x]
  <2>1. ep \in [Bindings -> EpType]
    BY DEF IInv, TypeOK, EntryTypeOK, EpType
  <2>2. ep[b].listed - 1 = 0
    BY <1>2
  <2>3. ep' = [ep EXCEPT ![b] = [ep[b] EXCEPT !.listed = 0]]
    BY <1>3, <2>2
  <2>4. [ep[b] EXCEPT !.listed = 0] \in EpType
    BY <2>1 DEF EpType
  <2> QED BY <2>1, <2>3, <2>4
<1>10. /\ ep'[b].listed = 0 /\ ep'[b].dead = ep[b].dead
       /\ ep'[b].val = ep[b].val /\ ep'[b].ack = ep[b].ack
  BY <1>9 DEF EpType
<1>11. TypeOK'
  <2>0. TypeOK
    BY DEF IInv
  <2>1. in' \in Nat
    BY <1>6, <2>0 DEF TypeOK, EntryTypeOK
  <2>2. EntryTypeOK'
    BY <1>3, <1>7, <1>8, <1>9, <2>0, <2>1 DEF TypeOK, EntryTypeOK, EpType
  <2> QED BY <1>3, <2>0, <2>2 DEF TypeOK, clientVars, bufferVars
<1>12. EntryInv'
  <2>1. \A x \in Bindings : Unserved(x)' <=> Unserved(x)
    BY <1>3 DEF Unserved
  <2>2. \A s \in Servers : todo[s] \in Bindings \cup {NoBinding} /\ todo[s] # b
    BY <1>5 DEF Unserved, IInv, TypeOK, EntryTypeOK
  <2>3. in' = out' + Len(pending') /\ ~wild'
    <3>1. in \in Nat /\ out \in Nat /\ Len(pending) \in Nat
      BY Typed DEF IInv
    <3>2. in = out + Len(pending) /\ ~wild
      BY DEF IInv, EntryInv
    <3> QED BY <1>3, <1>6, <1>7, <3>1, <3>2
  <2> QED BY <1>3, <1>4, <1>5, <1>7, <1>8, <2>1, <2>2, <2>3 DEF IInv, EntryInv
<1>13. Life(b)' /\ Noticed(b)' /\ Held(b)'
  <2>1. /\ alive' = alive /\ mu' = mu /\ cpc' = cpc /\ call' = call
        /\ replies' = replies /\ ccall' = ccall /\ todo' = todo /\ at' = at
        /\ Life(b) /\ Noticed(b) /\ Held(b)
    BY <1>3 DEF IInv, clientVars, bufferVars
  <2>2. Life(b)'
    BY <1>2, <1>4, <1>8, <1>10, <2>1 DEF Life
  <2>3. Noticed(b)'
    BY <1>2, <1>4, <1>8, <1>10, <2>1 DEF Noticed
  <2>4. Held(b)'
    BY <1>10, <2>1 DEF Held, Quiet, Replying
  <2> QED BY <2>2, <2>3, <2>4
<1>14. \A s \in Servers : todo'[s] # b
  BY <1>3, <1>5 DEF Unserved
<1>15. ASSUME NEW c \in Clients, BindingOf[c] = b PROVE Calling(c, b)'
  BY <1>3, <1>10, <1>15
     DEF IInv, Calling, Quiet, Underway, Replying, clientVars, bufferVars
<1>16. Elsewhere(b)
  BY <1>3, <1>8, <1>9 DEF Elsewhere, clientVars, bufferVars
<1> QED BY <1>11, <1>12, <1>13, <1>14, <1>15, <1>16, OtherParts DEF OwnPart

\* A binding in use is open, and its other threads are outside.
LEMMA Holder ==
    ASSUME IInv, NEW c \in Clients, cpc[c] # "out"
    PROVE  LET b == BindingOf[c]
           IN  /\ b \in Bindings /\ mu[b] = c /\ alive[b] = "both" /\ ~ep[b].dead
               /\ estate[b] \in {"Idle", "Pending", "Active"}
               /\ \A d \in Clients \ {c} : BindingOf[d] = b
                      => cpc[d] = "out" /\ executed[d] = calls[d]
<1> DEFINE b == BindingOf[c]
<1>1. b \in Bindings /\ c # Nobody
  BY ShmAssumption
<1>2. mu[b] = c
  BY DEF IInv, TypeOK, Calling
<1>3. Life(b) /\ alive[b] \in {"both", "closing", "none"}
  BY <1>1 DEF IInv, TypeOK
<1>4. alive[b] = "both"
  BY <1>1, <1>2, <1>3 DEF Life
<1>5. ASSUME NEW d \in Clients \ {c}, BindingOf[d] = b
      PROVE  cpc[d] = "out" /\ executed[d] = calls[d]
  BY <1>2, <1>5 DEF IInv, TypeOK, Calling
<1> QED BY <1>1, <1>2, <1>3, <1>4, <1>5 DEF Life

LEMMA InitCallInv ==
    ASSUME IInv, NEW c \in Clients, InitCall(c) PROVE IInv'
<1> DEFINE b == BindingOf[c]
<1>1. /\ b \in Bindings /\ cpc[c] = "out" /\ cpc' = [cpc EXCEPT ![c] = "marshal"]
      /\ calls[c] < MaxCalls[c] /\ alive[b] = "both" /\ mu[b] = Nobody
      /\ mu' = [mu EXCEPT ![b] = c] /\ calls' = [calls EXCEPT ![c] = @ + 1]
      /\ UNCHANGED <<entryVars, ep, result, ccall, alive, bufferVars>>
  BY ShmAssumption DEF InitCall, Goes, MyTurn
<1> HIDE DEF b
<1>2. /\ mu'[b] = c /\ cpc'[c] = "marshal" /\ calls'[c] = calls[c] + 1
      /\ \A x \in Bindings \ {b} : mu'[x] = mu[x]
      /\ \A d \in Clients \ {c} : cpc'[d] = cpc[d] /\ calls'[d] = calls[d]
      /\ calls[c] \in Nat /\ BindingOf[c] = b
  BY <1>1 DEF IInv, TypeOK, b
<1>3. TypeOK'
  <2>1. /\ mu' \in [Bindings -> Clients \cup {Nobody}]
        /\ cpc' \in [Clients -> {"out", "marshal", "sent", "received"}]
    BY <1>1 DEF IInv, TypeOK
  <2>4. calls' \in [Clients -> Nat]
    <3>1. calls \in [Clients -> Nat] /\ calls[c] + 1 \in Nat
      BY <1>2 DEF IInv, TypeOK
    <3> QED BY <1>1, <3>1
  <2>5. EntryTypeOK
    BY DEF IInv, TypeOK
  <2>2. ASSUME NEW d \in Clients
        PROVE  executed'[d] <= calls'[d] /\ calls'[d] <= MaxCalls[d]
    <3>1. /\ executed[d] \in Nat /\ calls[d] \in Nat /\ MaxCalls[d] \in Nat
          /\ executed[d] <= calls[d] /\ calls[d] <= MaxCalls[d]
          /\ executed'[d] = executed[d]
      BY <1>1, ShmAssumption DEF IInv, TypeOK, bufferVars
    <3> QED BY <1>1, <1>2, <3>1
  <2>3. EntryTypeOK'
    BY <1>1, <2>5 DEF EntryTypeOK, entryVars
  <2> QED BY <1>1, <2>1, <2>2, <2>3, <2>4 DEF IInv, TypeOK, bufferVars
<1>4. EntryInv'
  BY <1>1, EntryKept DEF IInv
<1>5. Quiet(b) /\ ~Replying(b) /\ ~ep[b].dead
  BY <1>1 DEF IInv, Life, Held
<1>6. Quiet(b)' /\ ~Replying(b)'
  BY <1>1, <1>5 DEF Quiet, Replying, entryVars, bufferVars
<1>7. Life(b)' /\ Noticed(b)'
  BY <1>1 DEF IInv, Life, Noticed, entryVars, bufferVars
<1>8. Held(b)'
  BY <1>1, <1>2, ShmAssumption DEF Held
<1>9. \A s \in Servers : Acks(s)'
  BY <1>1 DEF IInv, Acks, entryVars, bufferVars
<1>10. ASSUME NEW d \in Clients, BindingOf[d] = b PROVE Calling(d, b)'
  <2>1. cpc[d] = "out" /\ executed[d] = calls[d] /\ executed'[d] = executed[d]
    BY <1>1, <1>10, NobodyCalls DEF bufferVars
  <2> QED BY <1>2, <1>6, <2>1 DEF Calling
<1>11. Elsewhere(b)
  BY <1>1, <1>2 DEF Elsewhere, entryVars, bufferVars
<1> QED BY <1>1, <1>3, <1>4, <1>7, <1>8, <1>9, <1>10, <1>11, OtherParts DEF OwnPart

LEMMA SendCallInv ==
    ASSUME IInv, NEW c \in Clients, SendCall(c) PROVE IInv'
<1> DEFINE b == BindingOf[c]
<1>1. /\ cpc[c] = "marshal" /\ cpc' = [cpc EXCEPT ![c] = "sent"]
      /\ request' = [request EXCEPT ![b] = c]
      /\ ep' = [ep EXCEPT ![b] = Sent(ep[b])]
      /\ UNCHANGED <<entryVars, calls, result, mu, ccall, alive, replies, call,
                     reply, executed>>
  BY DEF SendCall, Goes
<1>2. /\ b \in Bindings /\ mu[b] = c /\ alive[b] = "both" /\ ~ep[b].dead
      /\ estate[b] \in {"Idle", "Pending", "Active"}
      /\ \A d \in Clients \ {c} : BindingOf[d] = b
             => cpc[d] = "out" /\ executed[d] = calls[d]
  BY <1>1, Holder
<1>3. Quiet(b) /\ ~Replying(b) /\ executed[c] + 1 = calls[c]
  BY <1>1 DEF IInv, Calling
<1>4. BindingOf[c] = b
  OBVIOUS
<1> HIDE DEF b
<1>5. ep \in [Bindings -> EpType] /\ ep[b] \in EpType
  BY <1>2 DEF IInv, TypeOK, EntryTypeOK, EpType
<1>6. /\ Sent(ep[b]) \in EpType /\ Sent(ep[b]).val = ep[b].val + 1
      /\ Sent(ep[b]).ack = ep[b].ack /\ ~Sent(ep[b]).dead
      /\ Sent(ep[b]).listed =
             ep[b].listed + (IF ep[b].val = ep[b].ack THEN 1 ELSE 0)
  <2>1. Lists(ep[b]) = IF ep[b].val = ep[b].ack THEN 1 ELSE 0
    BY DEF Lists
  <2>2. ep[b].listed + Lists(ep[b]) \in Nat /\ ep[b].val + 1 \in Nat
    BY <1>5, <2>1 DEF EpType
  <2>3. Sent(ep[b]) = [ep[b] EXCEPT !.val = ep[b].val + 1,
                                    !.listed = ep[b].listed + Lists(ep[b])]
    BY DEF Sent
  <2> QED BY ONLY <1>2, <1>5, <2>1, <2>2, <2>3 DEF EpType
<1>7. /\ cpc'[c] = "sent" /\ request'[b] = c
      /\ ep'[b] = Sent(ep[b]) /\ ep' \in [Bindings -> EpType]
      /\ \A x \in Bindings \ {b} : ep'[x] = ep[x] /\ request'[x] = request[x]
      /\ \A d \in Clients \ {c} : cpc'[d] = cpc[d]
  BY <1>1, <1>2, <1>5, <1>6 DEF IInv, TypeOK
<1>8. TypeOK'
  BY <1>1, <1>7 DEF IInv, TypeOK, EntryTypeOK, EpType, entryVars
<1>9. EntryInv'
  BY <1>1, EntryKept DEF IInv
<1>10. Life(b)'
  BY <1>1, <1>2, <1>6, <1>7 DEF Life, entryVars
<1>11. Noticed(b)'
  <2>1. estate'[b] = estate[b] /\ Noticed(b)
    BY <1>1, <1>2 DEF IInv, entryVars
  <2>2. ep[b].val \in Nat /\ ep[b].ack \in Nat /\ ep[b].listed \in Nat
    BY <1>5 DEF EpType
  <2> QED BY <1>2, <1>6, <1>7, <2>1, <2>2 DEF Noticed
<1>12. Held(b)'
  BY <1>1, <1>2, <1>4, <1>7, ShmAssumption DEF Held
<1>13. ASSUME NEW s \in Servers, todo'[s] = b PROVE Acks(s)'
  <2>1. /\ todo[s] = b /\ at'[s] = at[s] /\ seen'[s] = seen[s] /\ call' = call
        /\ Acks(s) /\ seen[s] \in Nat /\ ep[b].val \in Nat /\ todo'[s] = b
    BY <1>1, <1>5, <1>13 DEF IInv, TypeOK, EntryTypeOK, EpType, entryVars
  <2> QED BY <1>6, <1>7, <2>1 DEF Acks
<1>14. Underway(b, c)'
  <2>1. ~Replying(b)'
    BY <1>1, <1>3 DEF Replying, entryVars
  <2> QED BY <1>1, <1>3, <1>6, <1>7, <2>1 DEF Underway, Quiet
<1>15. ASSUME NEW d \in Clients, BindingOf[d] = b PROVE Calling(d, b)'
  BY <1>1, <1>2, <1>7, <1>14, <1>15 DEF Calling
<1>16. Elsewhere(b)
  BY <1>1, <1>4, <1>7 DEF Elsewhere, entryVars
<1> QED BY <1>2, <1>8, <1>9, <1>10, <1>11, <1>12, <1>13, <1>15, <1>16, OtherParts
        DEF OwnPart

LEMMA ReceiveReplyInv ==
    ASSUME IInv, NEW c \in Clients, ReceiveReply(c) PROVE IInv'
<1> DEFINE b == BindingOf[c]
<1>1. /\ cpc[c] = "sent" /\ cpc' = [cpc EXCEPT ![c] = "received"]
      /\ replies[b] > ccall[b] /\ ccall' = [ccall EXCEPT ![b] = replies[b]]
      /\ UNCHANGED <<entryVars, ep, calls, result, mu, alive, bufferVars>>
  BY DEF ReceiveReply, Goes
<1>2. /\ b \in Bindings /\ mu[b] = c /\ alive[b] = "both" /\ ~ep[b].dead
      /\ \A d \in Clients \ {c} : BindingOf[d] = b
             => cpc[d] = "out" /\ executed[d] = calls[d]
  BY <1>1, Holder
<1>3. Underway(b, c) /\ BindingOf[c] = b /\ TypeOK
  BY <1>1 DEF IInv, Calling
<1> HIDE DEF b
<1>4. /\ ep[b].val = ccall[b] + 1 /\ call[b] = ccall[b] + 1
      /\ replies[b] = ccall[b] + 1 /\ executed[c] = calls[c] /\ ~Replying(b)
      /\ reply[b] = c
  <2>1. ccall[b] \in Nat /\ replies[b] # ccall[b]
    BY <1>1, <1>2, <1>3, Typed
  <2> QED BY <1>3, <2>1 DEF Underway
<1>5. /\ cpc'[c] = "received" /\ ccall'[b] = replies[b]
      /\ \A x \in Bindings \ {b} : ccall'[x] = ccall[x]
      /\ \A d \in Clients \ {c} : cpc'[d] = cpc[d]
  BY <1>1, <1>2, <1>3 DEF TypeOK
<1>6. TypeOK'
  <2>1. replies[b] \in Nat
    BY <1>2, <1>3 DEF TypeOK
  <2> QED BY <1>1, <1>3, <2>1 DEF TypeOK, EntryTypeOK, entryVars, bufferVars
<1>7. EntryInv'
  BY <1>1, EntryKept DEF IInv
<1>8. Life(b)' /\ Noticed(b)'
  BY <1>1, <1>2 DEF IInv, Life, Noticed, entryVars, bufferVars
<1>9. Held(b)'
  BY <1>1, <1>2, <1>3, <1>5, ShmAssumption DEF Held
<1>10. \A s \in Servers : Acks(s)'
  BY <1>1 DEF IInv, Acks, entryVars, bufferVars
<1>11. Quiet(b)' /\ ~Replying(b)'
  BY <1>1, <1>4, <1>5 DEF Quiet, Replying, entryVars, bufferVars
<1>12. ASSUME NEW d \in Clients, BindingOf[d] = b PROVE Calling(d, b)'
  BY <1>1, <1>2, <1>4, <1>5, <1>11, <1>12 DEF Calling, bufferVars
<1>13. Elsewhere(b)
  BY <1>1, <1>3, <1>5 DEF Elsewhere, entryVars, bufferVars
<1> QED BY <1>2, <1>6, <1>7, <1>8, <1>9, <1>10, <1>12, <1>13, OtherParts
        DEF OwnPart

LEMMA AckReceiveInv ==
    ASSUME IInv, NEW c \in Clients, AckReceive(c) PROVE IInv'
<1> DEFINE b == BindingOf[c]
<1>1. /\ cpc[c] = "received" /\ cpc' = [cpc EXCEPT ![c] = "out"]
      /\ mu' = [mu EXCEPT ![b] = Nobody]
      /\ result' = [result EXCEPT ![c] = reply[b]]
      /\ UNCHANGED <<entryVars, ep, calls, ccall, alive, bufferVars>>
  BY DEF AckReceive, Goes
<1>2. /\ b \in Bindings /\ alive[b] = "both" /\ ~ep[b].dead
      /\ \A d \in Clients \ {c} : BindingOf[d] = b
             => cpc[d] = "out" /\ executed[d] = calls[d]
  BY <1>1, Holder
<1>3. /\ Quiet(b) /\ ~Replying(b) /\ executed[c] = calls[c] /\ TypeOK
      /\ BindingOf[c] = b /\ reply[b] = c
  BY <1>1 DEF IInv, Calling
<1> HIDE DEF b
<1>4. /\ cpc'[c] = "out" /\ mu'[b] = Nobody
      /\ \A x \in Bindings \ {b} : mu'[x] = mu[x]
      /\ \A d \in Clients \ {c} : cpc'[d] = cpc[d]
  BY <1>1, <1>2, <1>3 DEF TypeOK
<1>5. TypeOK'
  BY <1>1, <1>3 DEF TypeOK, EntryTypeOK, entryVars, bufferVars
<1>6. EntryInv'
  BY <1>1, EntryKept DEF IInv
<1>7. Life(b)' /\ Noticed(b)'
  BY <1>1, <1>2 DEF IInv, Life, Noticed, entryVars, bufferVars
<1>8. Quiet(b)' /\ ~Replying(b)'
  BY <1>1, <1>3 DEF Quiet, Replying, entryVars, bufferVars
<1>9. Held(b)'
  BY <1>4, <1>8 DEF Held
<1>10. \A s \in Servers : Acks(s)'
  BY <1>1 DEF IInv, Acks, entryVars, bufferVars
<1>11. ASSUME NEW d \in Clients, BindingOf[d] = b PROVE Calling(d, b)'
  BY <1>1, <1>2, <1>3, <1>4, <1>11 DEF Calling, bufferVars
<1>12. Elsewhere(b)
  BY <1>1, <1>3, <1>4 DEF Elsewhere, entryVars, bufferVars
<1> QED BY <1>2, <1>5, <1>6, <1>7, <1>9, <1>10, <1>11, <1>12, OtherParts
        DEF OwnPart

-----------------------------------------------------------------------------
(* Servers.                                                                *)

\* A thread that serves nothing may do so anywhere in Rendezvous.
LEMMA ServerRests ==
    ASSUME IInv, NEW s \in Servers, todo[s] = NoBinding,
           NEW p \in {"look", "take", "await"}, at' = [at EXCEPT ![s] = p],
           seen' = [seen EXCEPT ![s] = in] \/ seen' = seen,
           UNCHANGED <<pending, estate, in, out, todo, wild, ep, clientVars,
                       bufferVars>>
    PROVE  IInv'
<1>1. TypeOK /\ at[s] \in {"look", "take", "await"} /\ at'[s] = p
      /\ \A u \in Servers \ {s} : at'[u] = at[u] /\ seen'[u] = seen[u]
  BY DEF IInv, TypeOK, EntryTypeOK, EntryInv
<1>2. TypeOK'
  BY <1>1 DEF TypeOK, EntryTypeOK, clientVars, bufferVars
<1>3. EntryInv'
  <2>1. \A x \in Bindings : /\ InQueue(x)' <=> InQueue(x)
                            /\ Unserved(x)' <=> Unserved(x)
    BY DEF InQueue, Unserved
  <2>2. \A u \in Servers :
            /\ at'[u] \in {"look", "take", "await"}
                   <=> at[u] \in {"look", "take", "await"}
            /\ at'[u] = "bury" <=> at[u] = "bury"
    BY <1>1
  <2> QED BY <2>1, <2>2 DEF IInv, EntryInv
<1>4. ASSUME NEW x \in Bindings PROVE Replying(x)' <=> Replying(x)
  BY <1>1, EntryAssumption DEF Replying
<1>5. \A x \in Bindings : Life(x)' /\ Noticed(x)' /\ Held(x)'
  BY <1>4 DEF IInv, Life, Noticed, Held, Quiet, clientVars, bufferVars
<1>6. \A u \in Servers : Acks(u)'
  BY <1>1 DEF IInv, Acks, bufferVars
<1>7. ASSUME NEW c \in Clients PROVE Calling(c, BindingOf[c])'
  <2>1. BindingOf[c] \in Bindings /\ Calling(c, BindingOf[c])
    BY ShmAssumption DEF IInv
  <2> QED BY <1>4, <2>1 DEF Calling, Quiet, Underway, clientVars, bufferVars
<1> QED BY <1>2, <1>3, <1>5, <1>6, <1>7 DEF IInv

LEMMA LookInv ==
    ASSUME IInv, NEW s \in Servers, Look(s), UNCHANGED <<clientVars, bufferVars>>
    PROVE  IInv'
<1>1. todo[s] = NoBinding
  BY DEF Look, IInv, EntryInv
<1> QED BY <1>1, ServerRests DEF Look, Waits

LEMMA WakeInv ==
    ASSUME IInv, NEW s \in Servers, Wake(s), UNCHANGED <<clientVars, bufferVars>>
    PROVE  IInv'
<1>1. todo[s] = NoBinding
  BY DEF Wake, Steps, IInv, EntryInv
<1> QED BY <1>1, ServerRests DEF Wake, Steps

LEMMA TakeInv ==
    ASSUME IInv, NEW s \in Servers, Take(s), UNCHANGED <<clientVars, bufferVars>>
    PROVE  IInv'
<1>0. PICK b : b = Head(pending)
  OBVIOUS
<1>1. todo[s] = NoBinding /\ at[s] = "take" /\ TypeOK
  BY DEF Take, IInv, EntryInv
<1>2. CASE ~Work
  BY <1>1, <1>2, ServerRests DEF Take, Waits
<1>3. CASE Work
  <2>1. pending # <<>>
    <3>1. in \in Nat /\ out \in Nat /\ in > out /\ in = out + Len(pending)
      BY <1>1, <1>3 DEF Work, IInv, EntryInv, TypeOK, EntryTypeOK
    <3>2. Len(pending) # 0
      BY <3>1
    <3> QED BY <3>2
  <2>2. /\ todo' = [todo EXCEPT ![s] = b] /\ pending' = Tail(pending)
        /\ estate' = [estate EXCEPT ![b] =
                         IF estate[b] = "Dead" THEN estate[b] ELSE "Active"]
        /\ at' = [at EXCEPT ![s] =
                     IF estate[b] = "Dead" THEN "bury" ELSE "poll"]
        /\ out' = out + 1
        /\ UNCHANGED <<seen, wild, in, ep, clientVars, bufferVars>>
    BY <1>0, <1>3, <2>1 DEF Take, TakenFrom
  <2>3. /\ pending' \in Seq(Bindings) /\ Len(pending) = Len(pending') + 1
        /\ Len(pending') \in Nat
        /\ \A i, j \in DOMAIN pending' : pending'[i] = pending'[j] => i = j
        /\ b \in Bindings /\ InQueue(b)
        /\ \A x \in Bindings : InQueue(x)' <=> InQueue(x) /\ x # b
    <3>1. pending \in Seq(Bindings)
      BY <1>1 DEF TypeOK, EntryTypeOK
    <3>2. \A i, j \in DOMAIN pending : pending[i] = pending[j] => i = j
      BY DEF IInv, EntryInv
    <3> QED BY <1>0, <2>1, <2>2, <3>1, <3>2, TailQueue
  <2>4. estate[b] \in {"Pending", "Dead"} /\ Unserved(b)
    BY <2>3, NobodyServes DEF IInv, EntryInv
  <2>5. /\ todo'[s] = b /\ at'[s] \in {"poll", "bury"}
        /\ estate'[b] = IF at'[s] = "bury" THEN "Dead" ELSE "Active"
        /\ estate'[b] = IF estate[b] = "Dead" THEN "Dead" ELSE "Active"
        /\ \A u \in Servers \ {s} : todo'[u] = todo[u] /\ at'[u] = at[u]
        /\ \A x \in Bindings \ {b} : estate'[x] = estate[x]
    BY <1>1, <2>2, <2>3 DEF TypeOK, EntryTypeOK
  <2>6. TypeOK'
    <3>1. out' \in Nat
      BY <1>1, <2>2 DEF TypeOK, EntryTypeOK
    <3>2. EntryTypeOK'
      BY <1>1, <2>2, <2>3, <2>4, <3>1 DEF TypeOK, EntryTypeOK
    <3> QED BY <1>1, <2>2, <3>2 DEF TypeOK, clientVars, bufferVars
  <2>7. EntryInv'
    <3>1. ~wild' /\ in' = out' + Len(pending')
      <4>1. in = out + Len(pending) /\ out \in Nat /\ ~wild
        BY <1>1 DEF IInv, EntryInv, TypeOK, EntryTypeOK
      <4> QED BY <2>2, <2>3, <4>1
    <3>2. \A x \in Bindings \ {b} : Unserved(x)' <=> Unserved(x)
      BY <1>1, <2>5, EntryAssumption DEF Unserved
    <3>3. ~Unserved(b)'
      BY <2>5 DEF Unserved
    <3>4. b # NoBinding /\ \A u \in Servers : todo[u] # b
      BY <2>3, <2>4, EntryAssumption DEF Unserved
    <3>5. \A u \in Servers : todo[u] \in Bindings \cup {NoBinding}
      BY <1>1 DEF TypeOK, EntryTypeOK
    <3>6. \A x \in Bindings :
             /\ InQueue(x)' <=> \/ estate'[x] = "Pending"
                                \/ estate'[x] = "Dead" /\ Unserved(x)'
             /\ estate'[x] = "Active" => ~Unserved(x)'
      BY <2>3, <2>5, <3>2, <3>3 DEF IInv, EntryInv
    <3>7. \A u \in Servers :
             /\ at'[u] \in {"look", "take", "await"} <=> todo'[u] = NoBinding
             /\ todo'[u] # NoBinding =>
                 estate'[todo'[u]] = IF at'[u] = "bury" THEN "Dead" ELSE "Active"
      BY <2>5, <3>4, <3>5 DEF IInv, EntryInv
    <3>8. \A t, u \in Servers :
             todo'[t] = todo'[u] /\ todo'[t] # NoBinding => t = u
      BY <2>5, <3>4 DEF IInv, EntryInv
    <3> QED BY <2>3, <3>1, <3>6, <3>7, <3>8 DEF EntryInv
  <2>8. ~Replying(b) /\ ~Replying(b)'
    BY <2>4, <2>5 DEF Replying, Unserved
  <2>9. Life(b)' /\ Noticed(b)' /\ Held(b)'
    <3>1. /\ Life(b) /\ Noticed(b) /\ Held(b) /\ ep' = ep /\ alive' = alive
          /\ mu' = mu /\ cpc' = cpc /\ call' = call /\ replies' = replies
          /\ ccall' = ccall
      BY <2>2, <2>3 DEF IInv, clientVars, bufferVars
    <3>2. alive[b] \in {"both", "closing", "none"}
      BY <1>1, <2>3 DEF TypeOK
    <3>3. Life(b)'
      BY <2>4, <2>5, <3>1, <3>2 DEF Life
    <3>4. Noticed(b)'
      BY <2>4, <2>5, <3>1, <3>2 DEF Noticed, Life
    <3> QED BY <2>8, <3>1, <3>3, <3>4 DEF Held, Quiet
  <2>10. ASSUME NEW u \in Servers, todo'[u] = b PROVE Acks(u)'
    <3>1. u = s
      BY <2>4, <2>5, <2>10 DEF Unserved
    <3> QED BY <2>5, <3>1 DEF Acks
  <2>11. ASSUME NEW c \in Clients, BindingOf[c] = b PROVE Calling(c, b)'
    <3>1. Calling(c, b)
      BY <2>11 DEF IInv
    <3> QED BY <2>2, <2>8, <3>1
            DEF Calling, Quiet, Underway, clientVars, bufferVars
  <2>12. Elsewhere(b)
    BY <1>1, <2>2, <2>5 DEF Elsewhere, clientVars, bufferVars
  <2> QED BY <2>3, <2>6, <2>7, <2>9, <2>10, <2>11, <2>12, OtherParts DEF OwnPart
<1> QED BY <1>2, <1>3

\* A binding that is served is out of the queue and has one thread; unless it
\* is being destroyed it is open, and listed again when it is acknowledged.
LEMMA Serving ==
    ASSUME IInv, NEW s \in Servers, todo[s] # NoBinding
    PROVE  LET b == todo[s]
           IN  /\ b \in Bindings /\ ~InQueue(b)
               /\ \A u \in Servers : todo[u] = b => u = s
               /\ at[s] \in {"poll", "dispatch", "reply", "ack", "bury"}
               /\ at[s] = "bury" => estate[b] = "Dead"
               /\ at[s] # "bury" =>
                     /\ estate[b] = "Active" /\ alive[b] = "both" /\ ~ep[b].dead
                     /\ ep[b].listed = 0 /\ ep[b].ack < ep[b].val
<1> DEFINE b == todo[s]
<1>1. /\ b \in Bindings /\ at[s] \notin {"look", "take", "await"}
      /\ estate[b] = IF at[s] = "bury" THEN "Dead" ELSE "Active"
      /\ \A u \in Servers : todo[u] = b => u = s
      /\ at[s] \in {"poll", "dispatch", "reply", "ack", "bury"}
  BY DEF IInv, TypeOK, EntryTypeOK, EntryInv
<1>2. ~InQueue(b)
  BY <1>1 DEF IInv, EntryInv, Unserved
<1>3. ASSUME at[s] # "bury"
      PROVE  /\ alive[b] = "both" /\ ~ep[b].dead
             /\ ep[b].listed = 0 /\ ep[b].ack < ep[b].val
  <2>1. /\ Life(b) /\ Noticed(b) /\ alive[b] \in {"both", "closing", "none"}
        /\ estate[b] = "Active"
    BY <1>1, <1>3 DEF IInv, TypeOK
  <2>2. alive[b] = "both" /\ ~ep[b].dead
    BY <2>1 DEF Life
  <2> QED BY <2>1, <2>2 DEF Noticed
<1> QED BY <1>1, <1>2, <1>3

\* The thread goes on to another place of its loop.
LEMMA ServesOn ==
    ASSUME IInv, NEW s \in Servers, todo[s] # NoBinding, at[s] # "bury",
           NEW p \in {"poll", "dispatch", "reply", "ack"},
           at' = [at EXCEPT ![s] = p],
           UNCHANGED <<pending, estate, in, out, todo, wild>>
    PROVE  EntryInv'
<1>1. /\ at'[s] = p /\ at[s] \in {"poll", "dispatch", "reply", "ack"}
      /\ \A u \in Servers \ {s} : at'[u] = at[u]
  BY SMTT(30), Serving DEF IInv, TypeOK, EntryTypeOK
<1>2. \A x \in Bindings : /\ InQueue(x)' <=> InQueue(x)
                          /\ Unserved(x)' <=> Unserved(x)
  BY DEF InQueue, Unserved
<1>3. \A u \in Servers :
          /\ at'[u] \in {"look", "take", "await"}
                 <=> at[u] \in {"look", "take", "await"}
          /\ at'[u] = "bury" <=> at[u] = "bury"
  BY <1>1
<1> QED BY <1>2, <1>3 DEF IInv, EntryInv

\* The thread is done with its binding.
LEMMA ServesNoMore ==
    ASSUME IInv, NEW s \in Servers, NEW b, b = todo[s], b # NoBinding,
           NEW st \in {"Idle", "Unbound"}, estate' = [estate EXCEPT ![b] = st],
           todo' = [todo EXCEPT ![s] = NoBinding],
           at' = [at EXCEPT ![s] = "look"], ~wild',
           UNCHANGED <<pending, in, out>>
    PROVE  EntryInv'
<1>1. b \in Bindings /\ ~InQueue(b) /\ \A u \in Servers : todo[u] = b => u = s
  BY Serving
<1>2. /\ todo'[s] = NoBinding /\ at'[s] = "look" /\ estate'[b] = st
      /\ \A u \in Servers \ {s} : todo'[u] = todo[u] /\ at'[u] = at[u]
      /\ \A x \in Bindings \ {b} : estate'[x] = estate[x]
  BY <1>1 DEF IInv, TypeOK, EntryTypeOK
<1>3. \A x \in Bindings \ {b} : Unserved(x)' <=> Unserved(x)
  BY <1>2, EntryAssumption DEF Unserved
<1>4. \A x \in Bindings : InQueue(x)' <=> InQueue(x)
  BY DEF InQueue
<1>5. \A x \in Bindings :
         /\ InQueue(x)' <=> \/ estate'[x] = "Pending"
                            \/ estate'[x] = "Dead" /\ Unserved(x)'
         /\ estate'[x] = "Active" => ~Unserved(x)'
  BY <1>1, <1>2, <1>3, <1>4 DEF IInv, EntryInv
<1>6. \A u \in Servers :
         /\ at'[u] \in {"look", "take", "await"} <=> todo'[u] = NoBinding
         /\ todo'[u] # NoBinding =>
             estate'[todo'[u]] = IF at'[u] = "bury" THEN "Dead" ELSE "Active"
  <2>1. \A u \in Servers : todo[u] \in Bindings \cup {NoBinding}
    BY DEF IInv, TypeOK, EntryTypeOK
  <2> QED BY <1>1, <1>2, <2>1 DEF IInv, EntryInv
<1>7. \A t, u \in Servers :
         todo'[t] = todo'[u] /\ todo'[t] # NoBinding => t = u
  BY <1>2 DEF IInv, EntryInv
<1> QED BY <1>5, <1>6, <1>7 DEF IInv, EntryInv

LEMMA PollInv ==
    ASSUME IInv, NEW s \in Servers, Poll(s), UNCHANGED <<clientVars, bufferVars>>
    PROVE  IInv'
<1>0. PICK b : b = todo[s]
  OBVIOUS
<1>1. /\ at[s] = "poll" /\ at' = [at EXCEPT ![s] = "dispatch"] /\ TypeOK
      /\ seen' = [seen EXCEPT ![s] = ep[b].val]
      /\ UNCHANGED <<pending, estate, in, out, todo, wild, ep, clientVars,
                     bufferVars>>
  BY <1>0 DEF Poll, Steps, IInv
<1>2. todo[s] # NoBinding
  BY <1>1 DEF IInv, EntryInv
<1>3. b \in Bindings /\ \A u \in Servers : todo[u] = b => u = s
  BY <1>0, <1>2, Serving
<1>4. /\ at'[s] = "dispatch" /\ seen'[s] = ep[b].val /\ ep[b].val \in Nat
      /\ \A u \in Servers \ {s} : at'[u] = at[u] /\ seen'[u] = seen[u]
  BY <1>1, <1>3, Typed DEF TypeOK, EntryTypeOK
<1>5. TypeOK'
  BY <1>1, <1>4 DEF TypeOK, EntryTypeOK, clientVars, bufferVars
<1>6. EntryInv'
  BY <1>1, <1>2, ServesOn
<1>7. Replying(b)' <=> Replying(b)
  BY <1>1, <1>3, <1>4 DEF Replying
<1>8. Life(b)' /\ Noticed(b)' /\ Held(b)'
  BY <1>1, <1>3, <1>7
     DEF IInv, Life, Noticed, Held, Quiet, clientVars, bufferVars
<1>9. ASSUME NEW u \in Servers, todo'[u] = b PROVE Acks(u)'
  BY <1>0, <1>1, <1>3, <1>4, <1>9 DEF Acks
<1>10. ASSUME NEW c \in Clients, BindingOf[c] = b PROVE Calling(c, b)'
  <2>1. Calling(c, b)
    BY <1>10 DEF IInv
  <2> QED BY <1>1, <1>7, <2>1
          DEF Calling, Quiet, Underway, clientVars, bufferVars
<1>11. Elsewhere(b)
  BY <1>0, <1>1, <1>4 DEF Elsewhere, clientVars, bufferVars
<1> QED BY <1>3, <1>5, <1>6, <1>8, <1>9, <1>10, <1>11, OtherParts DEF OwnPart

\* No more is received than has come.
LEMMA CallsBehind ==
    ASSUME IInv, NEW b \in Bindings, alive[b] = "both"
    PROVE  call[b] <= ep[b].val
<1>1. Held(b) /\ ~ep[b].dead /\ TypeOK
  BY DEF IInv, Life
<1>2. call[b] \in Nat /\ ccall[b] \in Nat /\ ep[b].val \in Nat
  BY <1>1, Typed
<1>3. CASE mu[b] = Nobody
  BY <1>1, <1>2, <1>3 DEF Held, Quiet
<1>4. CASE mu[b] # Nobody
  <2>1. PICK c \in Clients : c = mu[b] /\ BindingOf[c] = b /\ cpc[c] # "out"
    BY <1>1, <1>4 DEF Held, TypeOK
  <2>2. Calling(c, b) /\ cpc[c] \in {"marshal", "sent", "received"}
    BY <1>1, <2>1 DEF IInv, TypeOK
  <2>3. Quiet(b) \/ Underway(b, c)
    BY <2>2 DEF Calling
  <2> QED BY <1>2, <2>3 DEF Quiet, Underway
<1> QED BY <1>3, <1>4

LEMMA AckBackInv ==
    ASSUME IInv, NEW s \in Servers, AckBack(s),
           UNCHANGED <<clientVars, bufferVars>>
    PROVE  IInv'
<1>0. PICK b : b = todo[s]
  OBVIOUS
<1>1. /\ at[s] = "ack" /\ TypeOK /\ ep' = [ep EXCEPT ![b].ack = seen[s]]
      /\ UNCHANGED <<in, out, seen, clientVars, bufferVars>>
  BY <1>0 DEF AckBack, SeenBefore, IInv
<1>2. todo[s] # NoBinding
  BY <1>1 DEF IInv, EntryInv
<1>3. /\ b \in Bindings /\ ~InQueue(b)
      /\ \A u \in Servers : todo[u] = b => u = s
      /\ estate[b] = "Active" /\ alive[b] = "both" /\ ~ep[b].dead
      /\ ep[b].listed = 0
  BY <1>0, <1>1, <1>2, Serving
<1>4. /\ ep[b].val \in Nat /\ seen[s] \in Nat /\ call[b] \in Nat
      /\ ep \in [Bindings -> EpType] /\ ep[b] \in EpType
  BY <1>1, <1>3, Typed DEF TypeOK, EntryTypeOK
<1>5. /\ ep'[b] = [ep[b] EXCEPT !.ack = seen[s]] /\ ep' \in [Bindings -> EpType]
      /\ \A x \in Bindings \ {b} : ep'[x] = ep[x]
  <2>1. [ep[b] EXCEPT !.ack = seen[s]] \in EpType
    BY <1>4 DEF EpType
  <2> QED BY <1>1, <1>3, <1>4, <2>1
<1>6. /\ ep'[b].ack = seen[s] /\ ep'[b].val = ep[b].val /\ ~ep'[b].dead
      /\ ep'[b].listed = 0
  BY <1>3, <1>4, <1>5 DEF EpType
<1>7. seen[s] <= ep[b].val /\ seen[s] <= call[b] /\ call[b] <= ep[b].val
  BY <1>0, <1>1, <1>3, CallsBehind DEF IInv, Acks
<1>8. ~Replying(b)
  BY <1>0, <1>1, <1>3 DEF Replying
<1>9. CASE ep[b].val = seen[s]
  <2>1. /\ at' = [at EXCEPT ![s] = "look"]
        /\ todo' = [todo EXCEPT ![s] = NoBinding]
        /\ pending' = pending /\ estate' = [estate EXCEPT ![b] = "Idle"]
        /\ wild' = wild
    <3>1. RemoveFirst(pending, b) = pending
      BY <1>1, <1>3, RemoveAbsent DEF TypeOK, EntryTypeOK
    <3> QED BY <1>0, <1>1, <1>3, <1>9, <3>1
            DEF AckBack, SeenBefore, TypeOK, EntryTypeOK
  <2>2. /\ estate'[b] = "Idle" /\ todo'[s] = NoBinding
        /\ \A x \in Bindings \ {b} : estate'[x] = estate[x]
        /\ \A u \in Servers \ {s} : todo'[u] = todo[u] /\ at'[u] = at[u]
    BY <1>1, <1>3, <2>1 DEF TypeOK, EntryTypeOK
  <2>3. TypeOK'
    BY <1>1, <1>3, <1>5, <2>1
       DEF TypeOK, EntryTypeOK, EpType, clientVars, bufferVars
  <2>4. EntryInv'
    <3>1. ~wild'
      BY <2>1 DEF IInv, EntryInv
    <3> QED BY <1>0, <1>1, <1>2, <2>1, <3>1, ServesNoMore
  <2>5. \A u \in Servers : todo'[u] # b
    BY <1>2, <1>3, <1>0, <2>2
  <2>6. ~Replying(b)'
    BY <2>5 DEF Replying
  <2>7. ep'[b].ack = ep'[b].val /\ call[b] = ep'[b].val
    BY <1>4, <1>6, <1>7, <1>9
  <2>8. Life(b)' /\ Noticed(b)' /\ Held(b)'
    BY <1>1, <1>3, <1>6, <1>8, <2>2, <2>6, <2>7
       DEF IInv, Life, Noticed, Held, Quiet, clientVars, bufferVars
  <2>9. ASSUME NEW c \in Clients, BindingOf[c] = b PROVE Calling(c, b)'
    <3>1. Calling(c, b)
      BY <2>9 DEF IInv
    <3> QED BY <1>1, <1>6, <1>8, <2>6, <3>1
            DEF Calling, Quiet, Underway, clientVars, bufferVars
  <2>10. Elsewhere(b)
    BY <1>0, <1>1, <1>5, <2>1, <2>2 DEF Elsewhere, clientVars, bufferVars
  <2> QED BY <1>3, <2>3, <2>4, <2>5, <2>8, <2>9, <2>10, OtherParts DEF OwnPart
<1>10. CASE ep[b].val # seen[s]
  <2>1. at' = [at EXCEPT ![s] = "poll"] /\ UNCHANGED <<todo, pending, estate, wild>>
    BY <1>0, <1>1, <1>10 DEF AckBack, SeenBefore
  <2>2. at'[s] = "poll" /\ \A u \in Servers \ {s} : at'[u] = at[u]
    BY <1>1, <2>1 DEF TypeOK, EntryTypeOK
  <2>3. TypeOK'
    <3>1. at' \in [Servers -> {"look", "take", "await", "poll", "dispatch",
                              "reply", "ack", "bury"}]
      BY <1>1, <2>1 DEF TypeOK, EntryTypeOK
    <3>2. EntryTypeOK'
      BY <1>1, <1>5, <2>1, <3>1 DEF TypeOK, EntryTypeOK, EpType
    <3> QED BY <1>1, <3>2 DEF TypeOK, clientVars, bufferVars
  <2>4. EntryInv'
    BY <1>1, <1>2, <2>1, ServesOn
  <2>5. ~Replying(b)'
    BY <1>3, <1>0, <2>1, <2>2 DEF Replying
  <2>6. ep'[b].ack < ep'[b].val
    BY <1>4, <1>6, <1>7, <1>10
  <2>7. Life(b)' /\ Noticed(b)' /\ Held(b)'
    BY <1>1, <1>3, <1>6, <1>8, <2>1, <2>5, <2>6
       DEF IInv, Life, Noticed, Held, Quiet, clientVars, bufferVars
  <2>8. ASSUME NEW u \in Servers, todo'[u] = b PROVE Acks(u)'
    BY <1>3, <2>1, <2>2, <2>8 DEF Acks
  <2>9. ASSUME NEW c \in Clients, BindingOf[c] = b PROVE Calling(c, b)'
    <3>1. Calling(c, b)
      BY <2>9 DEF IInv
    <3> QED BY <1>1, <1>6, <1>8, <2>5, <3>1
            DEF Calling, Quiet, Underway, clientVars, bufferVars
  <2>10. Elsewhere(b)
    BY <1>0, <1>1, <1>5, <2>1, <2>2 DEF Elsewhere, clientVars, bufferVars
  <2> QED BY <1>3, <2>3, <2>4, <2>7, <2>8, <2>9, <2>10, OtherParts DEF OwnPart
<1> QED BY <1>9, <1>10

LEMMA BuryInv ==
    ASSUME IInv, NEW s \in Servers, Bury(s), UNCHANGED <<clientVars, bufferVars>>
    PROVE  IInv'
<1>0. PICK b : b = todo[s]
  OBVIOUS
<1>1. /\ at[s] = "bury" /\ TypeOK /\ todo[s] # NoBinding
  BY DEF Bury, Steps, IInv, EntryInv
<1>2. /\ b \in Bindings /\ ~InQueue(b) /\ estate[b] = "Dead"
      /\ \A u \in Servers : todo[u] = b => u = s
  BY <1>0, <1>1, Serving
<1>3. /\ at' = [at EXCEPT ![s] = "look"]
      /\ todo' = [todo EXCEPT ![s] = NoBinding] /\ pending' = pending
      /\ estate' = [estate EXCEPT ![b] = "Unbound"]
      /\ UNCHANGED <<in, out, seen, wild, ep, clientVars, bufferVars>>
  <2>1. RemoveFirst(pending, b) = pending
    BY <1>1, <1>2, RemoveAbsent DEF TypeOK, EntryTypeOK
  <2> QED BY <1>0, <2>1 DEF Bury, Steps
<1>4. /\ estate'[b] = "Unbound" /\ todo'[s] = NoBinding
      /\ \A x \in Bindings \ {b} : estate'[x] = estate[x]
      /\ \A u \in Servers \ {s} : todo'[u] = todo[u] /\ at'[u] = at[u]
  BY <1>1, <1>2, <1>3 DEF TypeOK, EntryTypeOK
<1>5. TypeOK'
  BY <1>1, <1>3 DEF TypeOK, EntryTypeOK, clientVars, bufferVars
<1>6. EntryInv'
  <2>1. ~wild'
    BY <1>3 DEF IInv, EntryInv
  <2> QED BY <1>0, <1>1, <1>3, <2>1, ServesNoMore
<1>7. alive[b] = "none" /\ ep[b].dead /\ ep[b].listed = 0 /\ mu[b] = Nobody
  <2>1. Life(b) /\ alive[b] \in {"both", "closing", "none"}
    BY <1>1, <1>2 DEF IInv, TypeOK
  <2> QED BY <1>2, <2>1 DEF Life
<1>8. Life(b)' /\ Noticed(b)' /\ Held(b)'
  BY <1>3, <1>4, <1>7 DEF Life, Noticed, Held, clientVars
<1>9. \A u \in Servers : todo'[u] # b
  BY <1>0, <1>1, <1>2, <1>4
<1>10. ASSUME NEW c \in Clients, BindingOf[c] = b PROVE Calling(c, b)'
  BY <1>2, <1>3, <1>7, <1>10, NobodyCalls DEF Calling, clientVars, bufferVars
<1>11. Elsewhere(b)
  BY <1>0, <1>3, <1>4 DEF Elsewhere, clientVars, bufferVars
<1> QED BY <1>2, <1>5, <1>6, <1>8, <1>9, <1>10, <1>11, OtherParts DEF OwnPart

\* Whoever waits for an answer on a binding where something is under way.
LEMMA Caller ==
    ASSUME IInv, NEW b \in Bindings, alive[b] = "both",
           call[b] < ep[b].val \/ Replying(b)
    PROVE  \E c \in Clients :
              /\ mu[b] = c /\ BindingOf[c] = b /\ cpc[c] = "sent" /\ Underway(b, c)
              /\ ccall[b] \in Nat /\ call[b] \in Nat /\ executed[c] \in Nat
              /\ \A d \in Clients \ {c} : BindingOf[d] = b
                     => cpc[d] = "out" /\ executed[d] = calls[d]
<1>1. /\ Held(b) /\ ~ep[b].dead /\ TypeOK
      /\ call[b] \in Nat /\ ccall[b] \in Nat /\ ep[b].val \in Nat
  BY Typed DEF IInv, Life
<1>2. ~(Quiet(b) /\ ~Replying(b))
  BY <1>1 DEF Quiet
<1>3. PICK c \in Clients : c = mu[b] /\ BindingOf[c] = b /\ cpc[c] # "out"
  BY <1>1, <1>2 DEF Held, TypeOK
<1>4. Calling(c, b) /\ cpc[c] \in {"marshal", "sent", "received"}
      /\ executed[c] \in Nat
  BY <1>1, <1>3 DEF IInv, TypeOK
<1>5. cpc[c] = "sent" /\ Underway(b, c)
  BY <1>2, <1>4 DEF Calling
<1>6. \A d \in Clients \ {c} : BindingOf[d] = b
          => cpc[d] = "out" /\ executed[d] = calls[d]
  BY <1>3, Holder
<1> QED BY <1>1, <1>3, <1>4, <1>5, <1>6

\* What a dispatching thread receives is the call that waits for it.
LEMMA Received ==
    ASSUME IInv, NEW s \in Servers, at[s] = "dispatch", NEW b, b = todo[s],
           NewCall(b)
    PROVE  \E c \in Clients :
              /\ mu[b] = c /\ BindingOf[c] = b /\ cpc[c] = "sent"
              /\ request[b] = c /\ ep[b].val = ccall[b] + 1
              /\ call[b] = ccall[b] /\ replies[b] = ccall[b]
              /\ executed[c] + 1 = calls[c]
              /\ ccall[b] \in Nat /\ executed[c] \in Nat
              /\ \A d \in Clients \ {c} : BindingOf[d] = b
                     => cpc[d] = "out" /\ executed[d] = calls[d]
<1>1. b # NoBinding
  BY DEF IInv, EntryInv
<1>2. b \in Bindings /\ alive[b] = "both"
  BY <1>1, Serving
<1>3. PICK c \in Clients :
          /\ mu[b] = c /\ BindingOf[c] = b /\ cpc[c] = "sent" /\ Underway(b, c)
          /\ ccall[b] \in Nat /\ call[b] \in Nat /\ executed[c] \in Nat
          /\ \A d \in Clients \ {c} : BindingOf[d] = b
                 => cpc[d] = "out" /\ executed[d] = calls[d]
  BY <1>2, Caller DEF NewCall
<1>4. call[b] # ccall[b] + 1
  BY <1>3 DEF NewCall, Underway
<1> QED BY <1>3, <1>4 DEF Underway

LEMMA ReceiveInv == ASSUME IInv, NEW s \in Servers, Receive(s) PROVE IInv'
<1>0. PICK b : b = todo[s]
  OBVIOUS
<1>1. /\ at[s] = "dispatch" /\ TypeOK
      /\ UNCHANGED <<pending, estate, in, out, todo, seen, wild, ep, clientVars,
                     replies, request, reply>>
  BY DEF Receive, IInv
<1>2. todo[s] # NoBinding
  BY <1>1 DEF IInv, EntryInv
<1>3. /\ b \in Bindings /\ \A u \in Servers : todo[u] = b => u = s
      /\ alive[b] = "both" /\ ~ep[b].dead /\ estate[b] = "Active"
      /\ ep[b].ack < ep[b].val
  BY <1>0, <1>1, <1>2, Serving
<1>4. /\ call[b] \in Nat /\ ep[b].val \in Nat /\ ep[b].ack \in Nat
      /\ seen[s] \in Nat /\ seen[s] <= ep[b].val
  BY <1>0, <1>1, <1>3, Typed DEF IInv, TypeOK, EntryTypeOK, Acks
<1>5. ~Replying(b)
  BY <1>0, <1>1, <1>3 DEF Replying
<1>6. CASE NewCall(b)
  <2>1. /\ at' = [at EXCEPT ![s] = "reply"]
        /\ call' = [call EXCEPT ![b] = call[b] + 1]
        /\ executed' = [executed EXCEPT ![request[b]] = executed[request[b]] + 1]
    BY <1>0, <1>6 DEF Receive
  <2>2. PICK c \in Clients :
            /\ mu[b] = c /\ BindingOf[c] = b /\ cpc[c] = "sent"
            /\ request[b] = c /\ ep[b].val = ccall[b] + 1
            /\ call[b] = ccall[b] /\ replies[b] = ccall[b]
            /\ executed[c] + 1 = calls[c]
            /\ ccall[b] \in Nat /\ executed[c] \in Nat
            /\ \A d \in Clients \ {c} : BindingOf[d] = b
                   => cpc[d] = "out" /\ executed[d] = calls[d]
    BY <1>0, <1>1, <1>6, Received
  <2>3. /\ at'[s] = "reply" /\ call'[b] = ccall[b] + 1
        /\ executed'[c] = calls[c]
        /\ \A u \in Servers \ {s} : at'[u] = at[u]
        /\ \A x \in Bindings \ {b} : call'[x] = call[x]
        /\ \A d \in Clients \ {c} : executed'[d] = executed[d]
    BY <1>1, <1>3, <2>1, <2>2 DEF TypeOK, EntryTypeOK
  <2>4. TypeOK'
    <3>1. call' \in [Bindings -> Nat] /\ executed' \in [Clients -> Nat]
      <4>1. call[b] + 1 \in Nat /\ executed[c] + 1 \in Nat
        BY <1>4, <2>2
      <4>2. call \in [Bindings -> Nat] /\ executed \in [Clients -> Nat]
        BY <1>1 DEF TypeOK
      <4> QED BY <2>1, <2>2, <4>1, <4>2
    <3>2. \A d \in Clients : executed'[d] <= calls'[d] /\ calls'[d] <= MaxCalls[d]
      <4>1. \A d \in Clients : executed[d] <= calls[d] /\ calls[d] <= MaxCalls[d]
                               /\ calls[d] \in Nat /\ calls'[d] = calls[d]
        BY <1>1 DEF TypeOK, clientVars
      <4>2. calls[c] <= calls[c]
        BY <2>2, <4>1
      <4> QED BY <2>3, <4>1, <4>2
    <3>3. EntryTypeOK'
      BY <1>1, <2>1 DEF TypeOK, EntryTypeOK
    <3> QED BY <1>1, <3>1, <3>2, <3>3 DEF TypeOK, clientVars
  <2>5. EntryInv'
    BY <1>1, <1>2, <2>1, ServesOn
  <2>6. Replying(b)'
    BY <1>0, <1>1, <2>3 DEF Replying
  <2>7. Life(b)' /\ Noticed(b)'
    BY <1>1, <1>3, <2>3 DEF IInv, Life, Noticed, clientVars
  <2>8. Held(b)'
    BY <1>1, <2>2, ShmAssumption DEF Held, clientVars
  <2>9. ASSUME NEW u \in Servers, todo'[u] = b PROVE Acks(u)'
    <3>1. u = s /\ todo'[s] = b
      BY <1>0, <1>1, <1>3, <2>9
    <3>2. seen[s] <= call'[b]
      BY <1>4, <2>2, <2>3
    <3> QED BY <1>1, <1>4, <3>1, <3>2 DEF Acks
  <2>10. Underway(b, c)'
    BY <1>1, <2>2, <2>3, <2>6 DEF Underway, clientVars
  <2>11. ASSUME NEW d \in Clients, BindingOf[d] = b PROVE Calling(d, b)'
    BY <1>1, <2>2, <2>3, <2>10, <2>11 DEF Calling, clientVars
  <2>12. Elsewhere(b)
    BY <1>0, <1>1, <2>2, <2>3 DEF Elsewhere, clientVars
  <2> QED BY <1>3, <2>4, <2>5, <2>7, <2>8, <2>9, <2>11, <2>12, OtherParts
          DEF OwnPart
<1>7. CASE ~NewCall(b)
  <2>1. at' = [at EXCEPT ![s] = "ack"] /\ UNCHANGED <<call, executed>>
    BY <1>0, <1>7 DEF Receive
  <2>2. at'[s] = "ack" /\ \A u \in Servers \ {s} : at'[u] = at[u]
    BY <1>1, <2>1 DEF TypeOK, EntryTypeOK
  <2>3. TypeOK'
    BY <1>1, <2>1 DEF TypeOK, EntryTypeOK, clientVars
  <2>4. EntryInv'
    BY <1>1, <1>2, <2>1, ServesOn
  <2>5. ~Replying(b)'
    BY <1>0, <1>1, <1>3, <2>2 DEF Replying
  <2>6. Life(b)' /\ Noticed(b)' /\ Held(b)'
    BY <1>1, <1>3, <1>5, <2>1, <2>5
       DEF IInv, Life, Noticed, Held, Quiet, clientVars
  <2>7. ASSUME NEW u \in Servers, todo'[u] = b PROVE Acks(u)'
    <3>1. u = s /\ todo'[s] = b /\ seen[s] <= call[b]
      BY <1>0, <1>1, <1>3, <1>4, <1>7, <2>7 DEF NewCall
    <3> QED BY <1>1, <1>4, <2>1, <3>1 DEF Acks
  <2>8. ASSUME NEW d \in Clients, BindingOf[d] = b PROVE Calling(d, b)'
    <3>1. Calling(d, b)
      BY <2>8 DEF IInv
    <3> QED BY <1>1, <1>5, <2>1, <2>5, <3>1
            DEF Calling, Quiet, Underway, clientVars
  <2>9. Elsewhere(b)
    BY <1>0, <1>1, <2>1, <2>2 DEF Elsewhere, clientVars
  <2> QED BY <1>3, <2>3, <2>4, <2>6, <2>7, <2>8, <2>9, OtherParts DEF OwnPart
<1> QED BY <1>6, <1>7

LEMMA SendReplyInv == ASSUME IInv, NEW s \in Servers, SendReply(s) PROVE IInv'
<1>0. PICK b : b = todo[s]
  OBVIOUS
<1>1. at[s] = "reply" /\ TypeOK /\ todo[s] # NoBinding
  BY DEF SendReply, IInv, EntryInv
<1>2. /\ b \in Bindings /\ \A u \in Servers : todo[u] = b => u = s
      /\ alive[b] = "both" /\ ~ep[b].dead /\ estate[b] = "Active"
  BY <1>0, <1>1, Serving
<1>3. PICK p \in {"dispatch", "ack"} : at' = [at EXCEPT ![s] = p]
  BY <1>0, <1>2 DEF SendReply, Steps
<1>4. /\ reply' = [reply EXCEPT ![b] = request[b]]
      /\ replies' = [replies EXCEPT ![b] = replies[b] + 1]
      /\ UNCHANGED <<pending, estate, in, out, todo, seen, wild, ep, clientVars,
                     call, request, executed>>
  BY <1>0, <1>2 DEF SendReply
<1>5. Replying(b)
  BY <1>0, <1>1 DEF Replying
<1>6. PICK c \in Clients :
          /\ mu[b] = c /\ BindingOf[c] = b /\ cpc[c] = "sent" /\ Underway(b, c)
          /\ ccall[b] \in Nat /\ call[b] \in Nat /\ executed[c] \in Nat
          /\ \A d \in Clients \ {c} : BindingOf[d] = b
                 => cpc[d] = "out" /\ executed[d] = calls[d]
  BY <1>2, <1>5, Caller
<1>7. /\ request[b] = c /\ ep[b].val = ccall[b] + 1
      /\ call[b] = ccall[b] + 1 /\ replies[b] = ccall[b]
      /\ executed[c] = calls[c]
  BY <1>5, <1>6 DEF Underway
<1>8. /\ at'[s] = p /\ replies'[b] = ccall[b] + 1 /\ reply'[b] = c
      /\ \A u \in Servers \ {s} : at'[u] = at[u]
      /\ \A x \in Bindings \ {b} : replies'[x] = replies[x] /\ reply'[x] = reply[x]
  BY <1>1, <1>2, <1>3, <1>4, <1>7 DEF TypeOK, EntryTypeOK
<1>9. TypeOK'
  <2>1. replies' \in [Bindings -> Nat]
    <3>1. replies[b] + 1 \in Nat /\ replies \in [Bindings -> Nat]
      BY <1>1, <1>2 DEF TypeOK
    <3> QED BY <1>4, <3>1
  <2>2. EntryTypeOK'
    BY <1>1, <1>3, <1>4 DEF TypeOK, EntryTypeOK
  <2> QED BY <1>1, <1>4, <2>1, <2>2 DEF TypeOK, clientVars
<1>10. EntryInv'
  BY <1>1, <1>3, <1>4, ServesOn
<1>11. ~Replying(b)'
  BY <1>0, <1>2, <1>4, <1>8 DEF Replying
<1>12. Life(b)' /\ Noticed(b)'
  BY <1>2, <1>4 DEF IInv, Life, Noticed, clientVars
<1>13. Held(b)'
  BY <1>4, <1>6, ShmAssumption DEF Held, clientVars
<1>14. ASSUME NEW u \in Servers, todo'[u] = b PROVE Acks(u)'
  <2>1. u = s /\ todo'[s] = todo[s]
    BY <1>2, <1>4, <1>14
  <2>2. seen[s] <= ep[todo[s]].val /\ seen[s] <= call[todo[s]]
    BY <1>1 DEF IInv, Acks
  <2> QED BY <1>4, <2>1, <2>2 DEF Acks
<1>15. Underway(b, c)'
  BY <1>4, <1>6, <1>7, <1>8, <1>11 DEF Underway, clientVars
<1>16. ASSUME NEW d \in Clients, BindingOf[d] = b PROVE Calling(d, b)'
  BY <1>4, <1>6, <1>15, <1>16 DEF Calling, clientVars
<1>17. Elsewhere(b)
  BY <1>0, <1>4, <1>8 DEF Elsewhere, clientVars
<1> QED BY <1>2, <1>9, <1>10, <1>12, <1>13, <1>14, <1>16, <1>17, OtherParts
        DEF OwnPart

-----------------------------------------------------------------------------
(* Theorems.                                                               *)

LEMMA NextInv == Settled /\ IInv /\ [Next]_vars => IInv'
<1> SUFFICES ASSUME Settled, IInv, [Next]_vars PROVE IInv'
  OBVIOUS
<1>1. ASSUME NEW b \in Bindings,
             Open(b) \/ CloseRx(b) \/ CloseTx(b) \/ Notified(b)
      PROVE  IInv'
  BY <1>1, OpenInv, CloseRxInv, CloseTxInv, NotifiedInv
<1>2. ASSUME NEW c \in Clients, InitCall(c) \/ Proceed(c) PROVE IInv'
  BY <1>2, InitCallInv, SendCallInv, ReceiveReplyInv, AckReceiveInv DEF Proceed
<1>3. ASSUME NEW s \in Servers, Serve(s) PROVE IInv'
  BY <1>3, LookInv, TakeInv, WakeInv, PollInv, AckBackInv, ReceiveInv,
     SendReplyInv, BuryInv DEF Serve, Rendezvous
<1>4. CASE UNCHANGED vars
  <2>1. TypeOK' /\ EntryInv'
    BY <1>4 DEF IInv, TypeOK, EntryTypeOK, EntryInv, InQueue, Unserved, vars,
                entryVars, clientVars, bufferVars
  <2>2. \A b \in Bindings : Replying(b)' <=> Replying(b)
    BY <1>4 DEF Replying, vars, entryVars
  <2>3. \A b \in Bindings : Life(b)' /\ Noticed(b)' /\ Held(b)'
    BY <1>4, <2>2 DEF IInv, Life, Noticed, Held, Quiet, vars,
                      entryVars, clientVars, bufferVars
  <2>4. \A s \in Servers : Acks(s)'
    BY <1>4 DEF IInv, Acks, vars, entryVars, bufferVars
  <2>5. ASSUME NEW c \in Clients PROVE Calling(c, BindingOf[c])'
    <3>1. BindingOf[c] \in Bindings /\ Calling(c, BindingOf[c])
      BY ShmAssumption DEF IInv
    <3> QED BY <1>4, <2>2, <3>1 DEF Calling, Quiet, Underway, vars,
                                    entryVars, clientVars, bufferVars
  <2> QED BY <2>1, <2>3, <2>4, <2>5 DEF IInv
<1> QED BY <1>1, <1>2, <1>3, <1>4 DEF Next

LEMMA Invariant == ASSUME Settled PROVE Spec => []IInv
<1>1. IInv /\ [Next]_vars => IInv'
  BY NextInv
<1> QED BY <1>1, InitInv, PTL DEF Spec

(* Every variable has its type, and no call is executed that was not made. *)
THEOREM TypeCorrect == ASSUME Settled PROVE Spec => []TypeOK
<1>1. IInv => TypeOK
  BY DEF IInv
<1> QED BY <1>1, Invariant, PTL

(* The two event counts of the entry tell the length of its queue, which   *)
(* holds each pending binding once (entry.c: Notify, Rendezvous).          *)
THEOREM CountsTellQueue == ASSUME Settled PROVE Spec => []QueueCounted
<1>1. IInv => QueueCounted
  <2> SUFFICES ASSUME IInv PROVE QueueCounted
    OBVIOUS
  <2>1. in - out = Len(pending)
    <3>1. out \in Nat /\ Len(pending) \in Nat /\ in = out + Len(pending)
      <4>1. pending \in Seq(Bindings) /\ out \in Nat
        BY DEF IInv, TypeOK, EntryTypeOK
      <4> QED BY <4>1 DEF IInv, EntryInv
    <3> QED BY <3>1
  <2>2. \A b \in Bindings : b \in Range(pending) <=> InQueue(b)
    BY DEF Range, InQueue
  <2> QED BY <2>1, <2>2 DEF QueueCounted, IInv, EntryInv
<1> QED BY <1>1, Invariant, PTL

(* A binding is served by one thread at a time, for as long as it is       *)
(* active, and is not freed under it (entry.c: Rendezvous, Unbind).        *)
THEOREM OneServerEach == ASSUME Settled PROVE Spec => []OneServer
<1>1. IInv => OneServer
  <2> SUFFICES ASSUME IInv, NEW b \in Bindings
               PROVE  LET serve == {s \in Servers : todo[s] = b}
                      IN  /\ Cardinality(serve) <= 1
                          /\ estate[b] = "Active" => serve # {}
                          /\ serve # {} => estate[b] \in {"Active", "Dead"}
    BY DEF OneServer
  <2> DEFINE serve == {s \in Servers : todo[s] = b}
  <2>1. b # NoBinding
    BY EntryAssumption
  <2>2. CASE serve = {}
    <3>1. Cardinality(serve) = 0
      BY <2>2, FS_EmptySet
    <3>2. estate[b] # "Active"
      <4>1. Unserved(b)
        BY <2>2 DEF Unserved
      <4> QED BY <4>1 DEF IInv, EntryInv
    <3> QED BY <2>2, <3>1, <3>2
  <2>3. CASE serve # {}
    <3>1. PICK s \in Servers : todo[s] = b
      BY <2>3
    <3>2. serve = {s}
      BY <2>1, <3>1 DEF IInv, EntryInv
    <3>3. Cardinality(serve) = 1
      BY <3>2, FS_Singleton
    <3>4. estate[b] \in {"Active", "Dead"}
      BY <2>1, <3>1 DEF IInv, EntryInv
    <3> QED BY <2>3, <3>3, <3>4
  <2> QED BY <2>2, <2>3
<1> QED BY <1>1, Invariant, PTL

(* A call that has come and was not received will be: its binding is       *)
(* listed or queued, or its thread looks again (k_send, entry.c: Notify,   *)
(* Rendezvous; ShmTransport.c: SvrReceiveCall).                            *)
THEOREM CallsNoticed == ASSUME Settled PROVE Spec => []NoCallLost
<1>1. IInv => NoCallLost
  <2> SUFFICES ASSUME IInv, NEW b \in Bindings, ~ep[b].dead, call[b] < ep[b].val
               PROVE  \/ ep[b].listed > 0 /\ estate[b] = "Idle"
                      \/ estate[b] = "Pending"
                      \/ \E s \in Servers :
                             /\ todo[s] = b
                             /\ \/ at[s] \in {"poll", "dispatch", "reply"}
                                \/ at[s] = "ack" /\ seen[s] # ep[b].val
    BY DEF NoCallLost
  <2>1. TypeOK /\ Noticed(b) /\ b # NoBinding
    BY EntryAssumption DEF IInv
  <2>2. call[b] \in Nat /\ ep[b].val \in Nat /\ call[b] # ep[b].val
    BY <2>1, Typed
  <2>3. \/ estate[b] \in {"Pending", "Active"}
        \/ estate[b] = "Idle" /\ ep[b].listed = 1
    BY <2>1, <2>2 DEF Noticed
  <2>4. CASE estate[b] = "Active"
    <3>1. PICK s \in Servers : todo[s] = b
      BY <2>4 DEF IInv, EntryInv, Unserved
    <3>2. at[s] \in {"poll", "dispatch", "reply", "ack"}
      BY <2>1, <2>4, <3>1, Serving
    <3>3. ASSUME at[s] = "ack" PROVE seen[s] # ep[b].val
      <4>1. seen[s] <= call[b] /\ seen[s] \in Nat
        BY <2>1, <3>1, <3>3 DEF IInv, Acks, TypeOK, EntryTypeOK
      <4> QED BY <2>2, <4>1
    <3> QED BY <3>1, <3>2, <3>3
  <2> QED BY <2>3, <2>4
<1> QED BY <1>1, Invariant, PTL

\* What a step does to the call its caller sees.
LEMMA StepImplements ==
    ASSUME Settled, IInv, [Next]_vars
    PROVE  [R!Next]_<<[c \in Clients |-> Phase(c)], result>>
<1> DEFINE phase == [c \in Clients |-> Phase(c)]
<1>1. SUFFICES ASSUME Next
               PROVE  R!Next \/ (phase' = phase /\ result' = result)
  <2>1. CASE UNCHANGED vars
    BY <2>1 DEF vars, clientVars, bufferVars, Phase
  <2> QED BY <2>1
<1>2. TypeOK /\ IInv'
  BY NextInv DEF IInv
<1>3. CASE UNCHANGED <<cpc, calls, result, executed>>
  BY <1>3 DEF Phase
<1>4. ASSUME NEW c \in Clients, InitCall(c) PROVE phase' = phase /\ result' = result
  <2>1. /\ cpc[c] = "out" /\ cpc'[c] = "marshal" /\ result' = result
        /\ executed' = executed
        /\ \A d \in Clients \ {c} : cpc'[d] = cpc[d] /\ calls'[d] = calls[d]
    BY <1>2, <1>4 DEF InitCall, Goes, TypeOK, bufferVars
  <2>2. \A d \in Clients : Phase(d)' = Phase(d)
    BY <2>1 DEF Phase
  <2> QED BY <2>1, <2>2
<1>5. ASSUME NEW c \in Clients, SendCall(c) PROVE R!Call(c)
  <2>1. /\ cpc[c] = "marshal" /\ cpc' = [cpc EXCEPT ![c] = "sent"]
        /\ result' = result /\ calls' = calls /\ executed' = executed
        /\ executed[c] + 1 = calls[c] /\ executed[c] \in Nat
    BY <1>2, <1>5 DEF SendCall, Goes, IInv, Calling, TypeOK
  <2>2. /\ cpc'[c] = "sent" /\ executed'[c] # calls'[c]
        /\ \A d \in Clients \ {c} : cpc'[d] = cpc[d]
    BY <1>2, <2>1 DEF TypeOK
  <2>3. Phase(c) = "idle" /\ Phase(c)' = "called"
    BY <2>1, <2>2 DEF Phase
  <2>4. \A d \in Clients \ {c} : Phase(d)' = Phase(d)
    BY <2>1, <2>2 DEF Phase
  <2>5. phase' = [phase EXCEPT ![c] = "called"] /\ phase[c] = "idle"
    BY <2>3, <2>4
  <2> QED BY <2>1, <2>5 DEF R!Call, R!Goes
<1>6. ASSUME NEW c \in Clients, ReceiveReply(c)
      PROVE  phase' = phase /\ result' = result
  <2>1. /\ cpc[c] = "sent" /\ cpc' = [cpc EXCEPT ![c] = "received"]
        /\ result' = result /\ calls' = calls /\ executed' = executed
    BY <1>6 DEF ReceiveReply, Goes, bufferVars
  <2>2. cpc'[c] = "received" /\ \A d \in Clients \ {c} : cpc'[d] = cpc[d]
    BY <1>2, <2>1 DEF TypeOK
  <2>3. executed'[c] = calls'[c]
    BY <1>2, <2>2 DEF IInv, Calling
  <2>4. \A d \in Clients : Phase(d)' = Phase(d)
    BY <2>1, <2>2, <2>3 DEF Phase
  <2> QED BY <2>1, <2>4
<1>7. ASSUME NEW c \in Clients, AckReceive(c) PROVE R!Return(c)
  <2>1. /\ cpc[c] = "received" /\ cpc' = [cpc EXCEPT ![c] = "out"]
        /\ result' = [result EXCEPT ![c] = c]
        /\ calls' = calls /\ executed' = executed /\ executed[c] = calls[c]
    BY <1>7 DEF AckReceive, Goes, IInv, Calling, bufferVars
  <2>2. cpc'[c] = "out" /\ \A d \in Clients \ {c} : cpc'[d] = cpc[d]
    BY <1>2, <2>1 DEF TypeOK
  <2>3. Phase(c) = "done" /\ Phase(c)' = "idle"
    BY <2>1, <2>2 DEF Phase
  <2>4. \A d \in Clients \ {c} : Phase(d)' = Phase(d)
    BY <2>1, <2>2 DEF Phase
  <2>5. phase' = [phase EXCEPT ![c] = "idle"] /\ phase[c] = "done"
    BY <2>3, <2>4
  <2> QED BY <2>1, <2>5 DEF R!Return, R!Goes
<1>8. ASSUME NEW s \in Servers, at[s] = "dispatch", NewCall(todo[s]), Receive(s)
      PROVE  \E c \in Clients : R!Execute(c)
  <2>1. PICK c \in Clients :
            /\ cpc[c] = "sent" /\ request[todo[s]] = c
            /\ executed[c] + 1 = calls[c] /\ executed[c] \in Nat
    BY <1>8, Received
  <2>2. /\ executed' = [executed EXCEPT ![c] = executed[c] + 1]
        /\ result' = result /\ calls' = calls /\ cpc' = cpc
    BY <1>8, <2>1 DEF Receive, clientVars
  <2>3. executed'[c] = calls[c] /\ executed[c] # calls[c]
        /\ \A d \in Clients \ {c} : executed'[d] = executed[d]
    BY <1>2, <2>1, <2>2 DEF TypeOK
  <2>4. Phase(c) = "called" /\ Phase(c)' = "done"
    BY <2>1, <2>2, <2>3 DEF Phase
  <2>5. \A d \in Clients \ {c} : Phase(d)' = Phase(d)
    BY <2>2, <2>3 DEF Phase
  <2>6. phase' = [phase EXCEPT ![c] = "done"] /\ phase[c] = "called"
    BY <2>4, <2>5
  <2> QED BY <2>2, <2>6 DEF R!Execute, R!Goes
<1>9. ASSUME NEW b \in Bindings,
             Open(b) \/ CloseRx(b) \/ CloseTx(b) \/ Notified(b)
      PROVE  UNCHANGED <<cpc, calls, result, executed>>
  BY <1>9 DEF Open, CloseRx, CloseTx, Notified, clientVars, bufferVars
<1>10. ASSUME NEW s \in Servers, Serve(s)
       PROVE  \/ UNCHANGED <<cpc, calls, result, executed>>
              \/ at[s] = "dispatch" /\ NewCall(todo[s]) /\ Receive(s)
  BY <1>10 DEF Serve, Receive, SendReply, clientVars, bufferVars
<1>11. CASE \E b \in Bindings :
                Open(b) \/ CloseRx(b) \/ CloseTx(b) \/ Notified(b)
  BY <1>3, <1>9, <1>11
<1>12. CASE \E c \in Clients : InitCall(c) \/ Proceed(c)
  <2>1. PICK c \in Clients : InitCall(c) \/ Proceed(c)
    BY <1>12
  <2>2. R!Call(c) => R!Next
    BY DEF R!Next
  <2>3. R!Return(c) => R!Next
    BY DEF R!Next
  <2>4. InitCall(c) \/ ReceiveReply(c) => phase' = phase /\ result' = result
    BY <1>4, <1>6
  <2>5. SendCall(c) \/ AckReceive(c) => R!Next
    BY <1>5, <1>7, <2>2, <2>3
  <2> QED BY <2>1, <2>4, <2>5 DEF Proceed
<1>13. CASE \E s \in Servers : Serve(s)
  <2>1. PICK s \in Servers : Serve(s)
    BY <1>13
  <2>2. CASE at[s] = "dispatch" /\ NewCall(todo[s]) /\ Receive(s)
    <3>1. PICK c \in Clients : R!Execute(c)
      BY <1>8, <2>2
    <3>2. R!Execute(c) => R!Next
      BY DEF R!Next
    <3> QED BY <3>1, <3>2
  <2> QED BY <1>3, <1>10, <2>1, <2>2
<1> QED BY <1>1, <1>11, <1>12, <1>13 DEF Next

(* Each call is executed once, between its sending and its return, and     *)
(* returns its own results (ShmTransport.c and the stubs): the transport   *)
(* implements RemoteCall.                                                  *)
THEOREM CallsAreImplemented == ASSUME Settled PROVE Spec => CallsImplemented
<1>1. Init => R!Init
  BY DEF Init, R!Init, Phase
<1>2. IInv /\ [Next]_vars => [R!Next]_<<[c \in Clients |-> Phase(c)], result>>
  BY StepImplements
<1> QED BY <1>1, <1>2, Invariant, PTL DEF Spec, CallsImplemented, R!Spec
=============================================================================
