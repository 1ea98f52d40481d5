----------------------------- MODULE RpkiCache -----------------------------
(***************************************************************************)
(* The table of validated ROA payloads (rpki_cache.rs): loaded from        *)
(* Routinator with a growing pause until it first succeeds, then every ten *)
(* minutes, and read by validate() without waiting.  A network is the      *)
(* sequence of its bits, so that one covers another if it is its prefix.   *)
(***************************************************************************)
EXTENDS Integers, Sequences, FiniteSetsExt

CONSTANTS Routes,      \* announced networks
          RouteAsns,
          Dumps,       \* what Routinator may answer: sequences of RawVrp
          BadNet,      \* a prefix that does not parse
          BadAsn       \* an ASN that does not parse

RawVrp == [net: {BadNet} \cup Seq({0, 1}), max_length: Nat, asn: RouteAsns \cup {BadAsn}]

ASSUME DumpsAssumption == Dumps \subseteq Seq(RawVrp)
ASSUME RoutesAssumption == Routes \subseteq Seq({0, 1}) \ {BadNet}

VARIABLES
  vrp_index,   \* the usable entries by network, each at its place in the dump
  vrpLoading,  \* the dump whose index is being put in place, <<>> if none
  vrpLocked,   \* load_vrp_index() holds the write lock
  vrpDump,     \* history: the dump loaded last
  backoffSecs  \* pause after the next failure; 600 in the regular loop

rpkiVars == <<vrp_index, vrpLoading, vrpLocked, vrpDump, backoffSecs>>

RpkiInit ==
  /\ vrp_index = [n \in {} |-> <<>>] /\ vrpDump = <<>>
  /\ vrpLoading = <<>> /\ vrpLocked = FALSE
  /\ backoffSecs = 5

\* An entry whose prefix or ASN does not parse is skipped.
Usable(v) == v.net # BadNet /\ v.asn # BadAsn

Places(d) == {k \in DOMAIN d : Usable(d[k])}

BuildIndex(d) ==
  [n \in {d[k].net : k \in Places(d)} |-> [k \in {j \in Places(d) : d[j].net = n} |-> d[k]]]

(* load_vrp_index() has an answer and takes the lock. *)
LockIndex(d) ==
  /\ ~vrpLocked
  /\ vrpLocked' = TRUE /\ vrpLoading' = d
  /\ UNCHANGED <<vrp_index, vrpDump, backoffSecs>>

(* It replaces the index; the loop goes on every ten minutes. *)
ReplaceIndex ==
  /\ vrpLocked
  /\ vrp_index' = BuildIndex(vrpLoading) /\ vrpDump' = vrpLoading
  /\ vrpLocked' = FALSE /\ vrpLoading' = <<>>
  /\ backoffSecs' = 600

(* The request or the answer is bad: the table stays. *)
RefreshFails ==
  /\ ~vrpLocked
  /\ backoffSecs' = IF backoffSecs = 600 THEN 600
                    ELSE IF 2 * backoffSecs > 60 THEN 60 ELSE 2 * backoffSecs
  /\ UNCHANGED <<vrp_index, vrpLoading, vrpLocked, vrpDump>>

RpkiNext == (\E d \in Dumps : LockIndex(d)) \/ ReplaceIndex \/ RefreshFails

RpkiSpec == RpkiInit /\ [][RpkiNext]_rpkiVars

-----------------------------------------------------------------------------
\* Mutation: the network of all addresses is not looked up.
CandidatesNotAll(p) == {len \in 1..Len(p) : SubSeq(p, 1, len) \in DOMAIN vrp_index}

\* The lengths at which the table has a network covering p.
Candidates(p) == {len \in 0..Len(p) : SubSeq(p, 1, len) \in DOMAIN vrp_index}

\* The places of that network's entries with the ASN.
MatchesAt(p, len, origin_as) ==
  LET vrp_list == vrp_index[SubSeq(p, 1, len)] IN
  {k \in DOMAIN vrp_list : vrp_list[k].asn = origin_as}

\* The first entry with the ASN of the network of that length.
FirstMatch(p, len, origin_as) == vrp_index[SubSeq(p, 1, len)][Min(MatchesAt(p, len, origin_as))]

\* The first entry with the ASN, from the longest network to the shortest,
\* decides: also if another would make the announcement valid.
validate(p, origin_as) ==
  LET matching == {len \in Candidates(p) : MatchesAt(p, len, origin_as) # {}} IN
  IF p = BadNet THEN "NotFound"
  ELSE IF vrpLocked \/ DOMAIN vrp_index = {} THEN "Unavailable"
  ELSE IF matching # {}
    THEN IF Len(p) <= FirstMatch(p, Max(matching), origin_as).max_length
         THEN "Valid" ELSE "InvalidLength"
  ELSE IF Candidates(p) # {} THEN "InvalidAsn" ELSE "NotFound"

-----------------------------------------------------------------------------
\* The entries of the last dump that cover p.
CoveringVrps(p) ==
  {v \in Range(vrpDump) : Usable(v) /\ Len(v.net) <= Len(p) /\ SubSeq(p, 1, Len(v.net)) = v.net}

(* What validate() says follows from the dump loaded last, however often a  *)
(* refresh has failed since: without a usable entry (or while the table is  *)
(* replaced) nothing is known; "not found" and "wrong ASN" are exactly      *)
(* those of RFC 6811; "valid" has an entry that makes it so, "too long" one *)
(* that is too short (but perhaps another that is not).                     *)
RpkiStatusSound ==
  \A p \in Routes, a \in RouteAsns :
    LET s == validate(p, a)
        own == {v \in CoveringVrps(p) : v.asn = a}
    IN IF vrpLocked \/ \A v \in Range(vrpDump) : ~Usable(v) THEN s = "Unavailable"
       ELSE \/ s = "NotFound" /\ CoveringVrps(p) = {}
            \/ s = "InvalidAsn" /\ CoveringVrps(p) # {} /\ own = {}
            \/ s = "Valid" /\ \E v \in own : Len(p) <= v.max_length
            \/ s = "InvalidLength" /\ \E v \in own : Len(p) > v.max_length
=============================================================================
