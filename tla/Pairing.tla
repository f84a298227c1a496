------------------------------ MODULE Pairing ------------------------------
(***************************************************************************)
(* Pairing a browser with the host, with Remote Access available: the code *)
(* on the host's screen, the attempts each address has left, the roster of *)
(* paired devices and the file it is kept in, rewritten whole by every     *)
(* change and by a last_seen touch at most once a minute. Instances is the *)
(* processes with a RemoteState over that file: one, by design, or the     *)
(* window and web_server.py beside each other.                             *)
(***************************************************************************)
EXTENDS Integers, FiniteSets

CONSTANTS Instances, Clients,
          Life,         \* PAIRING_CODE_TTL and PAIR_ATTEMPT_WINDOW, in ticks
          Limit,        \* PAIR_ATTEMPT_LIMIT
          SweepAt,      \* ATTEMPT_KEY_SWEEP_AT
          MaxTime, MaxCodes, MaxDevices,
          MaxTrouble    \* writes of the file that fail

VARIABLES file,     \* [devices, needsCode]
          mem,      \* _data of each instance
          fresh,    \* the instances whose _saved_mtime is the file's
          pc,       \* "idle", or "stamp" between the replace and the mtime read
          code,     \* _code: [code, until] or None
          attempts, \* _attempts: each client's stamps [at, nth], {} when it has no key
          now, codes, trouble,
          delivered,    \* ghost: the devices whose token reached a client
          tries         \* ghost: each client's attempts since its last success

store == <<file, mem, fresh, pc>>
meter == <<attempts, tries>>
vars == <<store, code, meter, now, codes, trouble, delivered>>

None == [code |-> 0, until |-> 0]

Init == /\ \E needs \in BOOLEAN : file = [devices |-> {}, needsCode |-> needs]
        /\ mem = [i \in Instances |-> file]
        /\ fresh = Instances /\ pc = [i \in Instances |-> "idle"]
        /\ code = [i \in Instances |-> None]
        /\ attempts = [i \in Instances |-> [c \in Clients |-> {}]]
        /\ now = 0 /\ codes = 0 /\ trouble = 0
        /\ delivered = {} /\ tries = attempts

Open(t) == now - t < Life
Stamps(S) == {s \in S : Open(s.at)}
\* One more stamp: nth tells it from those of the same tick.
Stamped(S) == S \cup {[at |-> now, nth |-> Cardinality(S)]}

-----------------------------------------------------------------------------
(* _save: the whole of what the instance holds replaces the file, and the file's
   new stamp is read back a step later. A write that fails leaves the change in
   memory. *)
Saves(i, data) ==
    /\ file' = data /\ mem' = [mem EXCEPT ![i] = data]
    /\ fresh' = {} /\ pc' = [pc EXCEPT ![i] = "stamp"]
    /\ UNCHANGED trouble

SaveFails(i, data) ==
    /\ trouble < MaxTrouble /\ trouble' = trouble + 1
    /\ mem' = [mem EXCEPT ![i] = data]
    /\ UNCHANGED <<file, fresh, pc>>

Stamp(i) == /\ pc[i] = "stamp" /\ pc' = [pc EXCEPT ![i] = "idle"]
            /\ fresh' = fresh \cup {i}
            /\ UNCHANGED <<file, mem, code, meter, now, codes, trouble, delivered>>

-----------------------------------------------------------------------------
Begin(i) == /\ pc[i] = "idle" /\ codes < MaxCodes /\ codes' = codes + 1
            /\ code' = [code EXCEPT ![i] = [code |-> codes + 1, until |-> now + Life]]
            /\ UNCHANGED <<store, meter, now, trouble, delivered>>

CancelCode(i) == /\ pc[i] = "idle" /\ code[i] # None
                 /\ code' = [code EXCEPT ![i] = None]
                 /\ UNCHANGED <<store, meter, now, codes, trouble, delivered>>

Live(i) == IF code[i] # None /\ now < code[i].until THEN code[i] ELSE None

\* Mutant of Swept: the other addresses' attempts are forgotten.
SweptWhole(i, who) == [c \in Clients |-> IF c = who THEN Stamps(attempts[i][c]) ELSE {}]
(* _rate_limit: the keys are swept once there are more than SweepAt of them; an
   address that spent its attempts is refused, and not charged. *)
Swept(i, who) ==
    IF Cardinality({c \in Clients : attempts[i][c] # {}}) > SweepAt
    THEN [c \in Clients |-> Stamps(attempts[i][c])]
    ELSE [attempts[i] EXCEPT ![who] = Stamps(@)]

RateLimited(i, who) ==
    /\ pc[i] = "idle" /\ Cardinality(Swept(i, who)[who]) >= Limit
    /\ attempts' = [attempts EXCEPT ![i] = Swept(i, who)]
    /\ UNCHANGED <<store, code, now, codes, trouble, delivered, tries>>

Admitted(i, who) == pc[i] = "idle" /\ Cardinality(Swept(i, who)[who]) < Limit

Charge(i, who) ==
    /\ attempts' = [attempts EXCEPT ![i] = [Swept(i, who) EXCEPT ![who] = Stamped(@)]]
    /\ tries' = [tries EXCEPT ![i][who] = Stamped(Stamps(@))]

Clear(i, who) ==
    /\ attempts' = [attempts EXCEPT ![i] = [Swept(i, who) EXCEPT ![who] = {}]]
    /\ tries' = [tries EXCEPT ![i][who] = {}]

Needed(i, given) == mem[i].needsCode \/ given # 0
Wrong(i, given) == Needed(i, given) /\ (Live(i) = None \/ Live(i).code # given)

(* claim with a code that is not the live one; no code is 0. *)
Refuse(i, who, given) ==
    /\ Admitted(i, who) /\ Wrong(i, given)
    /\ Charge(i, who) /\ code' = [code EXCEPT ![i] = Live(i)]
    /\ UNCHANGED <<store, now, codes, trouble, delivered>>

\* Mutant of Spent: a code that paired stays good.
SpentNot(i, given) == code
Spent(i, given) == IF Needed(i, given) THEN [code EXCEPT ![i] = None] ELSE code

(* claim that pairs: the code is spent first, then the device is booked and the
   file written, and only then is the token handed over. *)
Claim(i, who, given) ==
    LET device == [id |-> Cardinality(delivered) + trouble, code |-> given]
        data == [mem[i] EXCEPT !.devices = @ \cup {device}]
    IN  /\ Admitted(i, who) /\ ~Wrong(i, given) /\ device.id < MaxDevices
        /\ code' = Spent(i, given)
        /\ \/ Saves(i, data) /\ delivered' = delivered \cup {device} /\ Clear(i, who)
           \/ SaveFails(i, data) /\ Charge(i, who) /\ UNCHANGED delivered
        /\ UNCHANGED <<now, codes>>

-----------------------------------------------------------------------------
(* revoke and set_flag. *)
Change(i, data) ==
    /\ pc[i] = "idle" /\ (Saves(i, data) \/ SaveFails(i, data))
    /\ UNCHANGED <<code, meter, now, codes, delivered>>

Revoke(i, d) == Change(i, [mem[i] EXCEPT !.devices = @ \ {d}])
SetNeedsCode(i) == Change(i, [mem[i] EXCEPT !.needsCode = ~@])

(* authenticate and _maybe_flush, a minute or more after the last write: not over
   a file that changed since. *)
Touch(i) == /\ mem[i].devices # {} /\ i \in fresh
            /\ Change(i, mem[i])

Tick == /\ now < MaxTime /\ now' = now + 1
        /\ UNCHANGED <<store, code, meter, codes, trouble, delivered>>

Next == \/ \E i \in Instances :
             \/ Stamp(i) \/ Begin(i) \/ CancelCode(i) \/ SetNeedsCode(i) \/ Touch(i)
             \/ \E who \in Clients : \/ RateLimited(i, who)
                                     \/ \E given \in 0..MaxCodes :
                                          Refuse(i, who, given) \/ Claim(i, who, given)
             \/ \E d \in mem[i].devices : Revoke(i, d)
        \/ Tick

Spec == Init /\ [][Next]_vars

(* A code pairs one device, whoever races for it and whatever is minted,
   cancelled or expires meanwhile (claim: two browsers racing the same code
   cannot both come away paired), and no address gets more than Limit attempts a
   window, whatever other addresses do to the table of attempts. *)
PairingIsMetered ==
    /\ \A c \in 1..MaxCodes : Cardinality({d \in delivered : d.code = c}) <= 1
    /\ \A i \in Instances, who \in Clients : Cardinality(Stamps(tries[i][who])) <= Limit

(* _maybe_flush: a touch does not undo another process's revoke. *)
TouchUndoesNothing == [][\A i \in Instances : Touch(i) => file'.devices = file.devices]_vars

-----------------------------------------------------------------------------
(* The inductive invariant that the property follows from. *)

StampSet == SUBSET [at : Int, nth : Nat]
TypeOK == /\ now \in Nat /\ codes \in Nat
          /\ code \in [Instances -> [code : Nat, until : Int]]
          /\ attempts \in [Instances -> [Clients -> StampSet]]
          /\ tries \in [Instances -> [Clients -> StampSet]]
CodeIsNew(i) == /\ code[i].code <= codes
                /\ code[i].code # 0 => /\ \A j \in Instances : code[j].code = code[i].code => j = i
                                       /\ \A d \in delivered : d.code # code[i].code
DeliveredOnce == \A d \in delivered : /\ d.code \in 0 .. codes
                                      /\ \A e \in delivered : d.code # 0 /\ e.code = d.code => e = d
CodesAreSpent == DeliveredOnce /\ \A i \in Instances : CodeIsNew(i)
AddressIsMetered(i, who) ==
    /\ IsFiniteSet(attempts[i][who]) /\ IsFiniteSet(tries[i][who])
    /\ Stamps(attempts[i][who]) = Stamps(tries[i][who])
    /\ Cardinality(Stamps(tries[i][who])) <= Limit
TableIsTrue == \A i \in Instances, who \in Clients : AddressIsMetered(i, who)
PairInv == TypeOK /\ CodesAreSpent /\ TableIsTrue
=============================================================================
