----------------------------- MODULE MCGateway -----------------------------
(***************************************************************************)
(* Components of the gateway that share no state: their steps commute and  *)
(* a property of one only depends on its own.  A behaviour lets one of     *)
(* them run, so that their states add up and do not multiply; the others   *)
(* stay in one initial state.  Detection runs in two parts: all paths with *)
(* two records of one length, and the HTTP path alone with three records;  *)
(* API requests that change something change the same tenant or rule.      *)
(***************************************************************************)
EXTENDS MCIngest, ConfigStore, RpkiCache, Detection, RoaPoller, Snapshots, MCWave

CONSTANTS p1, a1, a2

VARIABLE part

MCVrps == [net: {<<>>, <<0>>, <<0, 1>>}, max_length: 0..2, asn: {a1, a2}]
MCBadVrps == {[net |-> BadNet, max_length |-> 0, asn |-> a1],
              [net |-> <<0>>, max_length |-> 1, asn |-> BadAsn]}
MCDumps == {<<>>} \cup {<<v>> : v \in MCVrps \cup MCBadVrps}
             \cup {<<v, w>> : v \in MCVrps, w \in MCBadVrps \cup {u \in MCVrps : u.asn = a1}}
MCRoutes == {<<>>, <<0>>, <<1>>, <<0, 1>>, <<0, 0>>}

MCLearnt == [p \in {p1} |-> {a1}]
\* At first the registry contradicts a2.
MCRegistry == [t \in 0..MaxNow |-> [p \in {p1} |-> IF t = 0 THEN {a1} ELSE {a1, a2}]]

\* Requests are alike, those to the API as well, and so are the values of fields.
GatewaySymmetry == Permutations(Requests) \cup Permutations(Values)

backVars == <<rpkiVars, detVars, roaVars, snapVars, waveVars>>
gatewayVars == <<part, vars, configVars, backVars>>

GatewayInit ==
  /\ part \in {"ingest", "config", "rpki", "detection", "paths", "roa", "snapshots", "wave"}
  /\ Init /\ ConfigInit /\ RpkiInit /\ DetInit /\ RoaInit /\ SnapInit /\ WaveInit
  /\ Cardinality({i \in Ids : rows[i] # NoRow}) <= IF part = "config" THEN 1 ELSE 0
  /\ part = "paths" => ~rpkiOn
  /\ part \notin {"detection", "paths"} => rpkiOn
  /\ part # "roa" => published = {}
  /\ part # "snapshots" => lastSaved = NoFile
  /\ part # "wave" => baselineEntry = Unknown

BackgroundNext ==
  \/ part = "rpki" /\ RpkiNext /\ UNCHANGED <<detVars, roaVars, snapVars, waveVars>>
  \/ /\ part = "detection" /\ DetNext
     /\ handled' <= 2 /\ \A c \in checks' : c.len = 1
     /\ now' > 0 => rpkiOn
     /\ UNCHANGED <<rpkiVars, roaVars, snapVars, waveVars>>
  \/ /\ part = "paths" /\ DetNext
     /\ now' = 0 /\ running' = NoTask /\ flaps'["runner"] = flaps["runner"]
     /\ alerts' <= Cardinality(reports') /\ \A c \in checks' : c.rec.type = "announce"
     /\ UNCHANGED <<rpkiVars, roaVars, snapVars, waveVars>>
  \/ part = "roa" /\ RoaNext /\ UNCHANGED <<rpkiVars, detVars, snapVars, waveVars>>
  \/ part = "snapshots" /\ SnapNext /\ UNCHANGED <<rpkiVars, detVars, roaVars, waveVars>>
  \/ part = "wave" /\ WaveNext /\ UNCHANGED <<rpkiVars, detVars, roaVars, snapVars>>

GatewayNext ==
  /\ UNCHANGED part
  /\ \/ part = "ingest" /\ Next /\ UNCHANGED <<configVars, backVars>>
     \/ /\ part = "config" /\ ConfigNext /\ UNCHANGED <<vars, backVars>>
        /\ Cardinality({adminReq'[r].id : r \in AdminRequests} \ {NoRow}) <= 1
     \/ BackgroundNext /\ UNCHANGED <<vars, configVars>>

GatewaySpec == GatewayInit /\ [][GatewayNext]_gatewayVars
=============================================================================
