----------------------------- MODULE RemoteControl ----------------------------
(***************************************************************************)
(* The host as remote browsers see it, with Remote Access available: paired *)
(* devices, their event sockets and the lock that lets one device at a time *)
(* drive the host. A device may have two sockets (a reload opens the new    *)
(* one first); its calls run on threads of their own.                       *)
(***************************************************************************)
EXTENDS Integers

CONSTANTS Devices, Sockets,
          Idle      \* CONTROL_IDLE_SECONDS, in ticks

VARIABLES enabled,  \* the master switch
          paired,   \* _data["devices"]
          holder,   \* _control: the device, None for nobody
          quiet,    \* ticks since the holder was last seen
          sock,     \* each socket: [pc, device]
          conns,    \* _connections: the sockets registered
          call      \* the method each device's call in flight asks for

vars == <<enabled, paired, holder, quiet, sock, conns, call>>
access == <<enabled, paired>>
lock == <<holder, quiet>>
net == <<sock, conns>>

None == "none"
Methods == {"claim_control", "release_control", "other"}
NoSocket == [pc |-> None, device |-> None]

Init == /\ enabled \in BOOLEAN /\ paired = Devices
        /\ holder = None /\ quiet = 0
        /\ sock = [s \in Sockets |-> NoSocket] /\ conns = {}
        /\ call = [d \in Devices |-> None]

Of(d) == {s \in conns : sock[s].device = d}
Connected(d) == Of(d) # {}

-----------------------------------------------------------------------------
(* The master switch, revoking and pairing, at the host. *)

\* The sockets of a device that lost its access are told to close.
CutSockets(cut) == /\ conns' = conns \ cut
                   /\ sock' = [s \in Sockets |-> IF s \in cut THEN [sock[s] EXCEPT !.pc = "closing"]
                                                 ELSE sock[s]]

SwitchOn == /\ ~enabled /\ enabled' = TRUE
            /\ UNCHANGED <<paired, lock, net, call>>

SwitchOff == /\ enabled /\ enabled' = FALSE
             /\ CutSockets(conns) /\ holder' = None
             /\ UNCHANGED <<paired, quiet, call>>

Revoke(d) == /\ d \in paired /\ paired' = paired \ {d}
             /\ CutSockets(Of(d)) /\ holder' = IF holder = d THEN None ELSE holder
             /\ UNCHANGED <<enabled, quiet, call>>

Pair(d) == /\ enabled /\ d \notin paired /\ paired' = paired \union {d}
           /\ UNCHANGED <<enabled, lock, net, call>>

-----------------------------------------------------------------------------
(* The event socket. *)

At(s, pc) == sock[s].pc = pc
Turn(s, pc) == sock' = [sock EXCEPT ![s].pc = pc]

\* The handshake: the token is checked, then the socket is accepted.
Accept(s, d) == /\ At(s, None) /\ enabled /\ d \in paired
                /\ sock' = [sock EXCEPT ![s] = [pc |-> "accepted", device |-> d]]
                /\ UNCHANGED <<access, lock, conns, call>>

Seen(d) == IF holder = d THEN quiet' = 0 ELSE UNCHANGED quiet

Register(s) == /\ At(s, "accepted") /\ Turn(s, "open")
               /\ conns' = conns \union {s} /\ Seen(sock[s].device)
               /\ UNCHANGED <<access, holder, call>>

Disconnect(s) == /\ At(s, "open") /\ Turn(s, "closing")
                 /\ UNCHANGED <<access, lock, conns, call>>

\* Mutant of Unregister: any socket's end gives the lock back.
UnregisterAny(s) == /\ At(s, "closing") /\ sock' = [sock EXCEPT ![s] = NoSocket]
                    /\ conns' = conns \ {s}
                    /\ holder' = IF holder = sock[s].device THEN None ELSE holder
                    /\ UNCHANGED <<access, quiet, call>>

\* unregister_connection: only the device's last socket gives the lock back.
Unregister(s) == /\ At(s, "closing") /\ sock' = [sock EXCEPT ![s] = NoSocket]
                 /\ conns' = conns \ {s}
                 /\ holder' = IF holder = sock[s].device /\ Of(holder) \subseteq {s} THEN None ELSE holder
                 /\ UNCHANGED <<access, quiet, call>>

SocketStep(s) == Register(s) \/ Unregister(s)

-----------------------------------------------------------------------------
(* A call, on a thread of its own. *)

Answered(d) == call' = [call EXCEPT ![d] = None]

\* device_for: the token is checked when the call comes in.
Rpc(d, m) == /\ call[d] = None /\ enabled /\ d \in paired
             /\ call' = [call EXCEPT ![d] = m]
             /\ UNCHANGED <<access, lock, net>>

\* Mutant of Displaceable: a holder stays one until it gives the lock back.
DisplaceableByRelease == holder = None

\* A holder that is neither connected nor recently active is displaced.
Displaceable == holder = None \/ (~Connected(holder) /\ quiet >= Idle)

Claim(d) == /\ call[d] = "claim_control" /\ Answered(d)
            /\ IF holder = d \/ Displaceable THEN holder' = d /\ quiet' = 0 ELSE UNCHANGED lock
            /\ UNCHANGED <<access, net>>

ReleaseControl(d) == /\ call[d] = "release_control" /\ Answered(d)
                     /\ holder' = IF holder = d THEN None ELSE holder
                     /\ UNCHANGED <<access, quiet, net>>

\* Any method of the service that is allowed: touch_control, then the service.
\* One that is refused (method_allowed: not a reading one, and not the holder) is
\* no touch, and the holder alone is touched.
Other(d) == /\ call[d] = "other" /\ Answered(d) /\ Seen(d)
            /\ UNCHANGED <<access, holder, net>>

CallStep(d) == Claim(d) \/ ReleaseControl(d) \/ Other(d)

-----------------------------------------------------------------------------
Tick == /\ quiet < Idle /\ quiet' = quiet + 1
        /\ UNCHANGED <<access, holder, net, call>>

Next == \/ SwitchOn \/ SwitchOff \/ Tick
        \/ \E s \in Sockets : Disconnect(s) \/ SocketStep(s) \/ \E d \in Devices : Accept(s, d)
        \/ \E d \in Devices : Revoke(d) \/ Pair(d) \/ CallStep(d) \/ \E m \in Methods : Rpc(d, m)

Spec == Init /\ [][Next]_vars

\* Threads go on and time passes.
FairSpec == /\ Spec /\ WF_vars(Tick)
            /\ \A s \in Sockets : WF_vars(SocketStep(s))
            /\ \A d \in Devices : WF_vars(CallStep(d))

-----------------------------------------------------------------------------
(* Properties *)

\* A device that stays connected keeps the lock, however long it only watches and
\* whichever of its other sockets come and go: it is lost to a release, a revoke
\* or the master switch alone.
KeepsLock == \A d \in Devices :
    holder = d /\ holder' # d /\ (\E s \in conns : s \in conns' /\ sock'[s].device = d)
        => call[d] = "release_control"
HolderKeepsLock == [][KeepsLock]_vars

\* A holder that went away does not keep the host hostage: a device that goes on
\* asking for the lock does not find it held for good by one that is gone.
Claims(d) == call[d] = "claim_control"
HeldByGone(d) == holder = d /\ ~Connected(d) /\ call[d] = None
GoneHolderIsDisplaced ==
    \A d, e \in Devices : d # e => ([]<>Claims(e) => []<>~HeldByGone(d))

-----------------------------------------------------------------------------
(* The inductive invariant that the property follows from. *)

SocketState == [pc : {None, "accepted", "open", "closing"}, device : Devices \union {None}]

\* Every registered socket is one whose handshake is over and whose end has not
\* been noted: nobody else is accepted on it meanwhile.
SocketsAreTrue ==
    /\ conns \subseteq Sockets
    /\ sock \in [Sockets -> SocketState]
    /\ \A s \in conns : sock[s].pc \in {"open", "closing"}
=============================================================================
