----------------------------- MODULE MCPlatform -----------------------------
(***************************************************************************)
(* The node's life cycle, its timer and handle table, the socket, TLS and  *)
(* QUIC services, the HTTP and WebSocket libraries, the cluster, the       *)
(* logger and the plugin host for TLC. The models share no variable; which *)
(* of them a behaviour is about is chosen at the start. The others rest in *)
(* an initial state; sockets, QUIC, HTTP client and plugins, which would   *)
(* need a menu to rest in, are off instead.                                *)
(***************************************************************************)
EXTENDS Node, TimerWheel, HandleTable, Net, Tls, Quic,
        HttpClient, HttpServer, WebSocket, Cluster, Logger, Plugins

CONSTANTS log, first, second

BootOneService == <<log, first>>

(* What one behaviour tries of each: delays of the two timers, operations  *)
(* and amounts on the sockets, packets and timers of a QUIC connection.    *)
Delays == {<<3, 3>>, <<6, 9>>}

SocketMenus ==
  {[ops |-> {"udp", "udp_for_peer", "udp_connect"}, open |-> 2, send |-> 1, rx |-> 2],
   [ops |-> {"listen"}, open |-> 2, send |-> 1, rx |-> 3],
   [ops |-> {"connect"}, open |-> 1, send |-> 2, rx |-> 1],
   [ops |-> {"connect_timeout"}, open |-> 1, send |-> 1, rx |-> 1]}

PacketMenus == {[net |-> 2, gen |-> 1, size |-> 1, hold |-> 0],
                [net |-> 1, gen |-> 1, size |-> 1, hold |-> 1],
                [net |-> 0, gen |-> 2, size |-> 2, hold |-> 1],
                [net |-> 4, gen |-> 0, size |-> 0, hold |-> 0]}

(* What one behaviour tries of the HTTP client: how many exchanges, calls  *)
(* on them, pieces of responses, and which kinds of request bodies.        *)
ExchangeMenus ==
  {[starts |-> 3, calls |-> 0, tok |-> 0, kinds |-> {"empty"}],
   [starts |-> 2, calls |-> 2, tok |-> 1, kinds |-> {"empty"}],
   [starts |-> 1, calls |-> 2, tok |-> 3, kinds |-> {"expect", "fixed", "empty"}]}

Kit(known, commands, provides, once) ==
  [known |-> known, commands |-> commands, provides |-> provides,
   subscribes |-> [p \in PlNames |-> p # 2], subscribesOnce |-> once]

Each == [p \in PlNames |-> {p}]
Plain == Kit(PlNames, Each, Each, TRUE)

(* Every dependency graph of three plugins in several orders of enabling;  *)
(* and one graph with two calls of init, messages, and kits that fail in   *)
(* resolve or in mount.                                                    *)
PluginMenus ==
  {[orders |-> {<<1, 2, 3>>, <<3, 2, 1>>, <<2, 1, 3>>, <<2, 1>>, <<1, 1>>, <<>>},
    deps |-> [PlNames -> SUBSET PlNames], kits |-> {Plain}, calls |-> 1, msgs |-> 0],
   [orders |-> {<<1, 2, 3>>},
    deps |-> {[p \in PlNames |-> IF p = 1 THEN {2, 3} ELSE {}]},
    kits |-> {Plain, Kit({1, 2}, Each, Each, TRUE), Kit(PlNames, Each, Each, FALSE),
              Kit(PlNames, [p \in PlNames |-> {p \div 2}], Each, TRUE),
              Kit(PlNames, Each, [p \in PlNames |-> {1}], TRUE)},
    calls |-> 2, msgs |-> 2]}

(* Who of two cluster nodes dials the other, how many requests each makes, *)
(* and how many cuts or restarts happen.                                   *)
LinkMenus == {[seeded |-> {}, ops |-> <<1, 0>>, faults |-> 0],
              [seeded |-> {1}, ops |-> <<1, 1>>, faults |-> 1],
              [seeded |-> {2, 1}, ops |-> <<0, 0>>, faults |-> 1],
              [seeded |-> {1, 2}, ops |-> <<1, 0>>, faults |-> 0]}

VARIABLE part

(* A model that is off keeps its variables at zero.                        *)
NetOff == /\ net = 0 /\ netTasks = 0 /\ netJobs = 0 /\ netBatch = 0 /\ netUsed = 0
QuicOff == /\ quic = 0 /\ quicTasks = 0 /\ quicEmits = 0 /\ quicSock = 0
         /\ quicUsed = 0
HcOff == /\ hc = 0 /\ hcTasks = 0 /\ hcNet = 0 /\ hcCaller = 0 /\ hcUsed = 0
PlOff == /\ plConf = 0 /\ plCall = 0 /\ plRuntime = 0 /\ plBox = 0 /\ plMsg = 0

kernel     == <<vars, twVars, htVars>>
transports == <<netVars, tlsVars, quicVars>>
http       == <<hcVars, hsVars, wsVars>>
users      == <<clVars, lgVars, plVars>>

PlatformInit ==
  /\ part \in {"node", "timer", "table", "net", "tls", "quic",
              "client", "server", "websocket", "cluster",
              "logger", "plugins"}
  /\ Init /\ TwInit /\ HtInit /\ TlsInit /\ HsInit /\ WsInit /\ ClInit /\ LgInit
  /\ part # "timer" => twSleep[1] = twSleep[2]
  /\ part # "cluster" => clMenu.seeded = {}
  /\ part # "logger" => lgFile.at = 0
  /\ IF part = "net"       THEN NetInit  ELSE NetOff
  /\ IF part = "quic"      THEN QuicInit ELSE QuicOff
  /\ IF part = "client"    THEN HcInit   ELSE HcOff
  /\ IF part = "plugins"   THEN PlInit   ELSE PlOff

PlatformNext ==
  /\ UNCHANGED part
  /\ \/ part = "node"      /\ Next     /\ UNCHANGED <<twVars, htVars, transports, http, users>>
     \/ part = "timer"     /\ TwNext   /\ UNCHANGED <<vars, htVars, transports, http, users>>
     \/ part = "table"     /\ HtNext   /\ UNCHANGED <<vars, twVars, transports, http, users>>
     \/ part = "net"       /\ NetNext  /\ UNCHANGED <<tlsVars, quicVars, kernel, http, users>>
     \/ part = "tls"       /\ TlsNext  /\ UNCHANGED <<netVars, quicVars, kernel, http, users>>
     \/ part = "quic"      /\ QuicNext /\ UNCHANGED <<netVars, tlsVars, kernel, http, users>>
     \/ part = "client"    /\ HcNext   /\ UNCHANGED <<hsVars, wsVars, kernel, transports, users>>
     \/ part = "server"    /\ HsNext   /\ UNCHANGED <<hcVars, wsVars, kernel, transports, users>>
     \/ part = "websocket" /\ WsNext   /\ UNCHANGED <<hcVars, hsVars, kernel, transports, users>>
     \/ part = "cluster"   /\ ClNext   /\ UNCHANGED <<lgVars, plVars, kernel, transports, http>>
     \/ part = "logger"    /\ LgNext   /\ UNCHANGED <<clVars, plVars, kernel, transports, http>>
     \/ part = "plugins"   /\ PlNext   /\ UNCHANGED <<clVars, lgVars, kernel, transports, http>>

PlatformSpec ==
  PlatformInit /\ [][PlatformNext]_<<part, kernel, transports, http, users>>
-----------------------------------------------------------------------------
(* The properties of the models that may be off.                           *)

\* Every call of the socket service is answered, no readiness is lost, every
\* owner is told of the end, write queues keep their order (rskynet-net).
SocketsSafe == part = "net" => NetSafe

\* Every QUIC call is answered once and limits, buffers, timers and sockets
\* are accounted for (rskynet-quic).
QuicKept == part = "quic" => QuicSafe

\* Exchanges of the HTTP client are answered and its pool's books are right
\* (rskynet-http client.rs).
ClientSafe == part = "client" => HcSafe

\* Plugins start in dependency order and every request of their host is
\* answered (rskynet-plugin).
PluginsSafe == part = "plugins" => PlHost
=============================================================================
