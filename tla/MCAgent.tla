------------------------------- MODULE MCAgent -------------------------------
(***************************************************************************)
(* Small instances for TLC of the concurrent parts of the agent that share *)
(* no state: the reporter of a connection, the attachment of TLS probes,   *)
(* the service registry, the scans of a container, a plugin connection,    *)
(* the certificate store and the cache with expirations.  A behaviour is   *)
(* one of one part; the others keep their initial state, and fairness is   *)
(* asked of the part that runs.                                            *)
(***************************************************************************)
EXTENDS Reporter, TlsManager, ServiceRegistry, ContainerScans, PluginConnection, CertStore, TTLCache

CONSTANT AgentParts    \* the parts that a run checks

VARIABLE agentPart

Registry == <<registered, closedSvc>>
Scans == <<container, scans>>
agentVars ==
    <<agentPart, vars, attachVars, flightVars, Registry, Scans, pluginVars, certVars, cacheVars>>

-----------------------------------------------------------------------------
\* PluginConnection: bodies of one to four bytes in three frames, which fit the
\* buffer, fill it, overflow it or are too large for it, and an exchange with
\* both directions.
Cmd(kind, d, data, eos) == [kind |-> kind, dir |-> d, data |-> data, eos |-> eos]
Headers(d) == Cmd("headers", d, <<>>, FALSE)
Body(d, data) == Cmd("body", d, data, FALSE)
FinalBody(d, data) == Cmd("body", d, data, TRUE)

Upload(a, b, c) ==
    [request |-> <<Headers("request"), Body("request", a), Body("request", b), Body("request", c),
                   FinalBody("request", <<>>)>>,
     response |-> <<>>]
Exchange ==
    [request |-> <<Headers("request"), FinalBody("request", <<1, 2>>)>>,
     response |-> <<Headers("response"), Body("response", <<3>>), FinalBody("response", <<4>>)>>]
AgentScripts ==
    {Exchange} \cup {Upload(a, b, c) : a \in {<<1>>, <<1, 2>>},
                                       b \in {<<3, 4>>, <<3, 4, 5>>, <<3, 4, 5, 6>>},
                                       c \in {<<7>>, <<7, 8>>}}

SomeDomain == CHOOSE d \in Domains : TRUE
SomeOp == CHOOSE o \in CacheOps : TRUE

-----------------------------------------------------------------------------
\* A part that is not checked has one initial state; the container that is not
\* checked is one that was scanned.
AgentInit ==
    /\ agentPart \in AgentParts
    /\ Init /\ (agentPart # "reporter" => ~domain)
    /\ AttachInit
    /\ RegistryInit
    /\ IF agentPart = "containers"
         THEN ScansInit
         ELSE container = [scanned |-> TRUE, attempts |-> 1] /\ scans = 1
    /\ PluginInit /\ (agentPart # "plugins" => script = Exchange)
    /\ CertInit /\ (agentPart # "certs" => \A h \in Handshakes : shake[h].domain = SomeDomain)
    /\ CacheInit /\ (agentPart # "cache" => \A u \in CacheUsers : user[u].op = SomeOp)

AgentNext ==
    /\ UNCHANGED agentPart
    /\ \/ /\ agentPart = "reporter" /\ Next
          /\ UNCHANGED <<attachVars, flightVars, Registry, Scans, pluginVars, certVars, cacheVars>>
       \/ /\ agentPart = "attach" /\ AttachNext
          /\ UNCHANGED <<vars, flightVars, Registry, Scans, pluginVars, certVars, cacheVars>>
       \/ /\ agentPart = "services" /\ RegistryNext
          /\ UNCHANGED <<vars, attachVars, Scans, pluginVars, certVars, cacheVars>>
       \/ /\ agentPart = "containers" /\ ScansNext
          /\ UNCHANGED <<vars, attachVars, Registry, pluginVars, certVars, cacheVars>>
       \/ /\ agentPart = "plugins" /\ PluginNext
          /\ UNCHANGED <<vars, attachVars, flightVars, Registry, Scans, certVars, cacheVars>>
       \/ /\ agentPart = "certs" /\ CertNext
          /\ UNCHANGED <<vars, attachVars, flightVars, Registry, Scans, pluginVars, cacheVars>>
       \/ /\ agentPart = "cache" /\ CacheNext
          /\ UNCHANGED <<vars, attachVars, flightVars, Registry, Scans, pluginVars, certVars>>

AgentSpec == AgentInit /\ [][AgentNext]_agentVars

\* A goroutine that can go on does, factories and plugins return, and the worker
\* and Teardown of a plugin connection go on: for the parts with a liveness property.
AgentFairness ==
    /\ \A c \in Calls : WF_attachVars(agentPart = "attach" /\ CallStep(c))
    /\ WF_pluginVars(agentPart = "plugins" /\ Worker)
    /\ WF_pluginVars(agentPart = "plugins" /\ Destroy)

AgentFairSpec == AgentSpec /\ AgentFairness
=============================================================================
