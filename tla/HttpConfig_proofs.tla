--------------------------- MODULE HttpConfig_proofs ---------------------------
(***************************************************************************)
(* Theorems about HttpConfig for any history of updates of one firmware.   *)
(***************************************************************************)
EXTENDS HttpConfig, TLAPS

(* What the connection is made from is what the last accepted configuration
   was turned into, and a refusal is one of the last configuration. *)
ConfigKept ==
    /\ pc = "connecting" \/ outcome # "pending" =>
         /\ Trust(config) # "invalid"
         /\ err = "OK"
         /\ http_config = [url |-> config.url,
                           skip_common_name_check |-> SkipsName(config),
                           trust |-> Trust(config),
                           if_name |-> config.bind_netif]
    /\ pc = "configuring" => err = "OK"
    /\ pc # "idle" => outcome = "pending"
    /\ err = "INVALID_ARG" => Trust(config) = "invalid"

(* Any connection is the one esp_https_ota makes of that configuration. *)
Connected ==
    /\ outcome = "refused" => Trust(config) = "none" /\ ~build.ALLOW_HTTP
    /\ outcome = "plain" => IsPlainHttp(config.url)
    /\ outcome = "unverified" => /\ ~IsPlainHttp(config.url)
                                 /\ Trust(config) \in {"none", "skip_server_verify_attach"}
    /\ outcome = "verified" => Trust(config) # "skip_server_verify_attach"

IInv == TypeOK /\ ConfigKept /\ Connected

(* Trust in the server is one of the four the HTTP client knows, or refused. *)
LEMMA TrustType ==
    ASSUME NEW c \in Configs
    PROVE  Trust(c) \in Trusts \cup {"invalid"} /\ SkipsName(c) \in BOOLEAN
  BY DEF Trust, Trusts, SkipsName, Configs

(* Only plain HTTP, and only where the build allows it, goes without. *)
LEMMA NoTrust ==
    ASSUME NEW c \in Configs, Trust(c) = "none"
    PROVE  IsPlainHttp(c.url) /\ build.ALLOW_HTTP
  BY DEF Trust

LEMMA InitIInv ==
    ASSUME Init
    PROVE  IInv
  BY DEF Init, IInv, TypeOK, ConfigKept, Connected, Zeroed, HttpConfigs, Urls, Trusts, Outcomes

LEMMA NextIInv ==
    ASSUME IInv, [Next]_vars
    PROVE  IInv'
<1>1. ASSUME NEW c \in Configs, Update(c)
      PROVE  IInv'
  BY <1>1 DEF IInv, TypeOK, ConfigKept, Connected, Update, Zeroed, HttpConfigs, Urls, Trusts,
              Outcomes
<1>2. CASE BuildHttpConfig
  <2>1. CASE Trust(config) = "invalid"
    BY <1>2, <2>1 DEF BuildHttpConfig, IInv, TypeOK, ConfigKept, Connected, Trust
  <2>2. CASE Trust(config) # "invalid"
    <3>1. Trust(config) \in Trusts /\ SkipsName(config) \in BOOLEAN
      BY <2>2, TrustType DEF IInv, TypeOK
    <3>2. http_config' \in HttpConfigs
      BY <1>2, <2>2, <3>1 DEF BuildHttpConfig, IInv, TypeOK, Configs, HttpConfigs
    <3>3. Trust(config)' = Trust(config) /\ SkipsName(config)' = SkipsName(config)
      BY <1>2 DEF BuildHttpConfig, Trust, SkipsName
    <3>. QED
      BY <1>2, <2>2, <3>2, <3>3 DEF BuildHttpConfig, IInv, TypeOK, ConfigKept, Connected
  <2>. QED
    BY <2>1, <2>2
<1>3. CASE HttpsOtaBegin
  <2>1. Trust(config)' = Trust(config) /\ SkipsName(config)' = SkipsName(config)
    BY <1>3 DEF HttpsOtaBegin, Trust, SkipsName
  <2>2. TypeOK' /\ ConfigKept'
    BY <1>3, <2>1 DEF HttpsOtaBegin, IInv, TypeOK, ConfigKept, Outcomes
  <2>3. Connected'
    BY <1>3, <2>1 DEF HttpsOtaBegin, IInv, ConfigKept, Connected, IsPlainHttp
  <2>. QED
    BY <2>2, <2>3 DEF IInv
<1>4. CASE UNCHANGED vars
  BY <1>4 DEF vars, IInv, TypeOK, ConfigKept, Connected, Trust, SkipsName
<1>. QED
  BY <1>1, <1>2, <1>3, <1>4 DEF Next

LEMMA IInvAlways == Spec => []IInv
<1>1. Init => IInv
  BY InitIInv
<1>2. IInv /\ [Next]_vars => IInv'
  BY NextIInv
<1>. QED
  BY <1>1, <1>2, PTL DEF Spec

(* Every variable has its type, along any number of updates. *)
THEOREM TypeCorrect == Spec => []TypeOK
<1>1. IInv => TypeOK
  BY DEF IInv
<1>. QED
  BY <1>1, IInvAlways, PTL

(* An unencrypted connection needs CONFIG_OTA_API_ALLOW_HTTP. *)
THEOREM PlainNeedsBuild == Spec => []PlainOnlyIfAllowed
<1>1. IInv => PlainOnlyIfAllowed
  BY DEF IInv, PlainOnlyIfAllowed, ConfigKept, Connected, Trust
<1>. QED
  BY <1>1, IInvAlways, PTL

(* An unverified one needs the lab option and a caller without certificate. *)
THEOREM UnverifiedNeedsLab == Spec => []UnverifiedOnlyInLab
<1>1. IInv => UnverifiedOnlyInLab
  BY DEF IInv, UnverifiedOnlyInLab, ConfigKept, Connected, Trust
<1>. QED
  BY <1>1, IInvAlways, PTL

(* What the component accepts esp_https_ota_begin() accepts; what it refuses
   had nothing to verify the server by. *)
THEOREM GateAgrees == Spec => []GateNeverSurprises
<1>1. IInv => GateNeverSurprises
  BY NoTrust DEF IInv, TypeOK, GateNeverSurprises, ConfigKept, Connected, Trust, IsPlainHttp
<1>. QED
  BY <1>1, IInvAlways, PTL

(* The name check of a verified connection is the caller's to drop. *)
THEOREM NameChecked == Spec => []NameCheckKept
<1>1. IInv => NameCheckKept
  BY DEF IInv, TypeOK, NameCheckKept, ConfigKept, Connected, SkipsName, Configs, HttpConfigs
<1>. QED
  BY <1>1, IInvAlways, PTL
=============================================================================
