--------------------------- MODULE TunnelRegistry ---------------------------
(***************************************************************************)
(* The manager's map from subdomains to tunnels (TunnelManager.tunnels in  *)
(* expose-server/src/tunnel_manager.rs), the TCP listeners beside it       *)
(* (TcpRegistry), and the tasks that change them: one websocket session    *)
(* per connected client (server.rs, handle_socket), which registers a      *)
(* tunnel and cleans up after it, and admin calls that disconnect one.     *)
(*                                                                         *)
(* A session makes one tunnel with a fresh id, so the session stands for   *)
(* the id.  Each DashMap operation is atomic and an action of its own.     *)
(***************************************************************************)
EXTENDS Integers, FiniteSets

CONSTANTS
    Sessions,     \* websocket sessions, and the ids of their tunnels
    Subdomains,   \* the names a client may ask for or be given
    Keys,         \* API keys clients present
    AdminCalls,   \* calls of DELETE /tunnels/{id}
    MaxTunnels,   \* ResourceLimits.max_tunnels, 0 = unlimited
    MaxPerKey,    \* ResourceLimits.max_tunnels_per_key, 0 = unlimited
    Threads       \* worker threads of the runtime

ASSUME SessionsFinite   == IsFiniteSet(Sessions)
ASSUME SubdomainsFinite == IsFiniteSet(Subdomains)
ASSUME AdminCallsFinite == IsFiniteSet(AdminCalls)
ASSUME LimitsNat        == MaxTunnels \in Nat /\ MaxPerKey \in Nat
ASSUME ThreadsPos       == Threads \in Nat \ {0}

VARIABLES
    tunnels,      \* TunnelManager.tunnels, NoSession where there is no key
    listeners,    \* TcpRegistry: tunnels that have a TCP listener
    closed,       \* tunnels whose ActiveTunnel::close has run
    pc,           \* where each session stands
    subdomain,    \* the subdomain a session allocated
    key,          \* the API key its client presented
    tcp,          \* the sessions that asked for a TCP tunnel
    admin,        \* where each admin call stands
    asked,        \* the tunnel whose id an admin call was given
    target        \* the map key it found for that id

sessionVars == <<pc, subdomain, key, tcp>>
adminVars   == <<admin, asked, target>>
vars == <<tunnels, listeners, closed, sessionVars, adminVars>>

NoSession   == "no session"
NoSubdomain == "no subdomain"
NoKey       == "no key"

ASSUME NoSessionFresh == NoSession \notin Sessions
\* api_key is an Option<String>: None is no key.
ASSUME NoKeyFresh == NoKey \notin Keys

\* From allocate_subdomain to the insert the session does not await, and
\* neither does its cleanup.
Registering == {"allocated", "global_ok", "key_ok", "free"}
CleaningUp  == {"closing", "closed", "unlistened"}
SessionPcs  == {"connecting", "refused", "registered", "listening", "serving",
                "awaiting_writer", "done", "aborted"} \cup Registering \cup CleaningUp

\* The insert has run.
Registered(s) == pc[s] \notin {"connecting", "refused"} \cup Registering
\* The session goes on and has not started to clean up.
Active(s) == pc[s] \in {"registered", "listening", "serving"}

Mapped       == {d \in Subdomains : tunnels[d] # NoSession}
MappedFor(k) == {d \in Mapped : key[tunnels[d]] = k}

BusySessions == {s \in Sessions : pc[s] \in Registering \cup CleaningUp}
BusyAdmins   == {a \in AdminCalls : admin[a] = "found"}
ThreadFree   == Cardinality(BusySessions) + Cardinality(BusyAdmins) < Threads

Init ==
    /\ tunnels = [d \in Subdomains |-> NoSession]
    /\ listeners = {}
    /\ closed = {}
    /\ pc = [s \in Sessions |-> "connecting"]
    /\ subdomain = [s \in Sessions |-> NoSubdomain]
    /\ key = [s \in Sessions |-> NoKey]
    /\ tcp = {}
    /\ admin = [a \in AdminCalls |-> "idle"]
    /\ asked = [a \in AdminCalls |-> NoSession]
    /\ target = [a \in AdminCalls |-> NoSubdomain]

Goto(s, to) == pc' = [pc EXCEPT ![s] = to] /\ UNCHANGED adminVars

\* The session moves on and changes nothing else.
Move(s, to) == Goto(s, to) /\ UNCHANGED <<tunnels, listeners, closed, subdomain, key, tcp>>

-----------------------------------------------------------------------------
(***************************************************************************)
(* handle_socket: the handshake and the registration                       *)
(***************************************************************************)
\* wait_for_connect, the version check or the API key check fails, or the name
\* asked for does not sanitize.
HandshakeFails(s) ==
    /\ pc[s] = "connecting"
    /\ Move(s, "refused")

\* allocate_subdomain: the sanitized desired name, or one of five random names,
\* that is not in the map.
Allocate(s, d, k, isTcp) ==
    /\ pc[s] = "connecting"
    /\ ThreadFree
    /\ d \notin Mapped
    /\ subdomain' = [subdomain EXCEPT ![s] = d]
    /\ key' = [key EXCEPT ![s] = k]
    /\ tcp' = IF isTcp THEN tcp \cup {s} ELSE tcp
    /\ Goto(s, "allocated")
    /\ UNCHANGED <<tunnels, listeners, closed>>

\* The desired name, or every one of the five drawn, is taken.
AllocateFails(s) ==
    /\ pc[s] = "connecting"
    /\ Mapped # {}
    /\ Move(s, "refused")

\* Mutant: the limit is compared with one `=` too many.
CheckGlobal_OffByOne(s) ==
    /\ pc[s] = "allocated"
    /\ MaxTunnels > 0 => Cardinality(Mapped) <= MaxTunnels
    /\ Move(s, "global_ok")

\* register_tunnel: the two limits, the name, the insert.
CheckGlobal(s) ==
    /\ pc[s] = "allocated"
    /\ MaxTunnels > 0 => Cardinality(Mapped) < MaxTunnels
    /\ Move(s, "global_ok")

\* Mutant: the tunnels of the key are not counted.
CheckKey_Skipped(s) ==
    /\ pc[s] = "global_ok"
    /\ Move(s, "key_ok")

KeyFull(s) ==
    MaxPerKey > 0 /\ key[s] # NoKey /\ Cardinality(MappedFor(key[s])) >= MaxPerKey

CheckKey(s) ==
    /\ pc[s] = "global_ok"
    /\ ~ KeyFull(s)
    /\ Move(s, "key_ok")

CheckFree(s) ==
    /\ pc[s] = "key_ok"
    /\ subdomain[s] \notin Mapped
    /\ Move(s, "free")

\* CapacityExceeded or SubdomainTaken: the client is told and the session ends.
Reject(s) ==
    /\ \/ pc[s] = "allocated" /\ MaxTunnels > 0 /\ Cardinality(Mapped) >= MaxTunnels
       \/ pc[s] = "global_ok" /\ KeyFull(s)
       \/ pc[s] = "key_ok" /\ subdomain[s] \in Mapped
    /\ Move(s, "refused")

\* DashMap::insert replaces what is there.
Insert(s) ==
    /\ pc[s] = "free"
    /\ tunnels' = [tunnels EXCEPT ![subdomain[s]] = s]
    /\ Goto(s, "registered")
    /\ UNCHANGED <<listeners, closed, subdomain, key, tcp>>

\* TcpRegistry::register_tunnel binds a listener; HTTP tunnels need none.
BindListener(s) ==
    /\ pc[s] = "registered"
    /\ s \in tcp
    /\ listeners' = listeners \cup {s}
    /\ Goto(s, "listening")
    /\ UNCHANGED <<tunnels, closed, subdomain, key, tcp>>

\* The bind fails, or the writer is gone when the ack is to be queued: the `?`
\* leaves everything registered so far where it is.
SetupFails(s) ==
    /\ pc[s] \in {"registered", "listening"}
    /\ Move(s, "aborted")

SendAck(s) ==
    /\ pc[s] = IF s \in tcp THEN "listening" ELSE "registered"
    /\ Move(s, "serving")

(***************************************************************************)
(* handle_socket: the end of the read loop and the cleanup                 *)
(***************************************************************************)
\* Disconnect, Error, a close frame or the end of the stream.
EndLoop(s) ==
    /\ pc[s] = "serving"
    /\ ThreadFree
    /\ Move(s, "closing")

\* A frame that does not decode, a websocket error or TCP data for an unknown
\* connection: `?` or return, without the cleanup.
AbortLoop(s) ==
    /\ pc[s] = "serving"
    /\ Move(s, "aborted")

CloseHandle(s) ==
    /\ pc[s] = "closing"
    /\ closed' = closed \cup {s}
    /\ Goto(s, "closed")
    /\ UNCHANGED <<tunnels, listeners, subdomain, key, tcp>>

\* Mutant: the listener is not removed.
RemoveListener_Forgotten(s) ==
    /\ pc[s] = "closed"
    /\ Move(s, "unlistened")

RemoveListener(s) ==
    /\ pc[s] = "closed"
    /\ listeners' = listeners \ {s}
    /\ Goto(s, "unlistened")
    /\ UNCHANGED <<tunnels, closed, subdomain, key, tcp>>

\* manager.remove(&subdomain) removes the entry of that name, whoever's it is.
Unmap(s) ==
    /\ pc[s] = "unlistened"
    /\ tunnels' = [tunnels EXCEPT ![subdomain[s]] = NoSession]
    /\ Goto(s, "awaiting_writer")
    /\ UNCHANGED <<listeners, closed, subdomain, key, tcp>>

\* writer.await: the session's own handle keeps a sender of the writer's
\* channel, so the writer only ends when a write to the socket fails.
WriterFails(s) ==
    /\ pc[s] = "awaiting_writer"
    /\ Move(s, "done")

RegisterStep(s) ==
    CheckGlobal(s) \/ CheckKey(s) \/ CheckFree(s) \/ Reject(s) \/ Insert(s)

CleanupStep(s) == CloseHandle(s) \/ RemoveListener(s) \/ Unmap(s)

SessionStep(s) ==
    \/ HandshakeFails(s) \/ AllocateFails(s)
    \/ \E d \in Subdomains, k \in Keys \cup {NoKey}, isTcp \in BOOLEAN : Allocate(s, d, k, isTcp)
    \/ RegisterStep(s)
    \/ BindListener(s) \/ SetupFails(s) \/ SendAck(s)
    \/ EndLoop(s) \/ AbortLoop(s)
    \/ CleanupStep(s) \/ WriterFails(s)

-----------------------------------------------------------------------------
(***************************************************************************)
(* disconnect_tunnel: find the key of the entry with the given id, then    *)
(* remove by that key and close what was removed.  Neither the session nor *)
(* the TCP listener is told.                                               *)
(***************************************************************************)
AdminFind(a, d) ==
    /\ admin[a] = "idle"
    /\ ThreadFree
    /\ d \in Mapped
    /\ asked' = [asked EXCEPT ![a] = tunnels[d]] /\ target' = [target EXCEPT ![a] = d]
    /\ admin' = [admin EXCEPT ![a] = "found"]
    /\ UNCHANGED <<tunnels, listeners, closed, sessionVars>>

\* Mutant: the tunnel is removed and not closed.
AdminRemove_Unclosed(a) ==
    /\ admin[a] = "found"
    /\ tunnels' = [tunnels EXCEPT ![target[a]] = NoSession]
    /\ admin' = [admin EXCEPT ![a] = "done"]
    /\ UNCHANGED <<listeners, closed, sessionVars, asked, target>>

\* Mutant: the result of the remove is taken for granted.
AdminRemove_Unchecked(a) ==
    /\ admin[a] = "found"
    /\ tunnels' = [tunnels EXCEPT ![target[a]] = NoSession]
    /\ closed' = closed \cup {tunnels[target[a]]}
    /\ admin' = [admin EXCEPT ![a] = "done"]
    /\ UNCHANGED <<listeners, sessionVars, asked, target>>

AdminRemove(a) ==
    /\ admin[a] = "found"
    /\ tunnels' = [tunnels EXCEPT ![target[a]] = NoSession]
    /\ closed' = (closed \cup {tunnels[target[a]]}) \ {NoSession}
    /\ admin' = [admin EXCEPT ![a] = "done"]
    /\ UNCHANGED <<listeners, sessionVars, asked, target>>

AdminStep(a) == (\E d \in Subdomains : AdminFind(a, d)) \/ AdminRemove(a)

\* No session and no admin call has anything left to do.
Terminated ==
    /\ \A s \in Sessions : pc[s] \in {"refused", "aborted", "done"}
    /\ \A a \in AdminCalls : admin[a] # "found"
    /\ UNCHANGED vars

Next ==
    \/ \E s \in Sessions : SessionStep(s)
    \/ \E a \in AdminCalls : AdminStep(a)
    \/ Terminated

Spec == Init /\ [][Next]_vars

-----------------------------------------------------------------------------
(***************************************************************************)
(* Properties                                                              *)
(***************************************************************************)

\* Every variable has the type its initial value suggests; in particular a
\* tunnel that is closed is the tunnel of some session.
TypeOK ==
    /\ tunnels \in [Subdomains -> Sessions \cup {NoSession}]
    /\ listeners \subseteq Sessions
    /\ closed \subseteq Sessions
    /\ pc \in [Sessions -> SessionPcs]
    /\ subdomain \in [Sessions -> Subdomains \cup {NoSubdomain}]
    /\ key \in [Sessions -> Keys \cup {NoKey}]
    /\ tcp \subseteq Sessions
    /\ admin \in [AdminCalls -> {"idle", "found", "done"}]
    /\ asked \in [AdminCalls -> Sessions \cup {NoSession}]
    /\ target \in [AdminCalls -> Subdomains \cup {NoSubdomain}]

\* What the map and the listeners lead to is sound: a subdomain leads to a
\* session that registered that very subdomain, and once a session has cleaned
\* up neither the map nor a listener leads to it again.
MapSound ==
    /\ \A d \in Mapped : Registered(tunnels[d]) /\ subdomain[tunnels[d]] = d
    /\ \A s \in Sessions :
          pc[s] \in {"awaiting_writer", "done"} =>
              s \notin listeners /\ \A d \in Subdomains : tunnels[d] # s

\* A tunnel whose session is active is missing from the map only if an admin call that
\* was given its id closed it, or another session registered the same subdomain: a race
\* of two registrations, or a cleanup or an admin call meant for the other session,
\* which both remove by name.
LostOnlyToRival ==
    \A s \in Sessions :
        Active(s) /\ tunnels[subdomain[s]] # s =>
            \/ s \in closed /\ \E a \in AdminCalls : asked[a] = s
            \/ \E v \in Sessions \ {s} : Registered(v) /\ subdomain[v] = subdomain[s]

\* The limits are checked before the insert and in other steps, so they can be
\* exceeded, by fewer tunnels than there are threads.
LimitsOvershoot ==
    /\ MaxTunnels > 0 => Cardinality(Mapped) <= MaxTunnels + Threads - 1
    /\ \A k \in Keys : MaxPerKey > 0 => Cardinality(MappedFor(k)) <= MaxPerKey + Threads - 1

\* "Tracks every active tunnel." (tunnel_manager.rs:176): a tunnel that is being
\* served and that no admin call has closed is in the manager's map.
TracksEveryActive ==
    \A s \in Sessions : pc[s] = "serving" /\ s \notin closed => tunnels[subdomain[s]] = s
=============================================================================
