------------------------------ MODULE HttpConfig ------------------------------
(***************************************************************************)
(* How an update decides whom to trust: ota_api_build_http_config()        *)
(* (src/src/ota-api-http.c) under every combination of the Kconfig options *)
(* it is compiled with, followed by the gate esp_https_ota_begin() keeps   *)
(* of its own and by the connection that results.                          *)
(*                                                                         *)
(* External, modelled from the comments in the source and the way it is    *)
(* used: the gate, and what esp-tls makes of each setting.                 *)
(***************************************************************************)
EXTENDS Naturals

(* What the application asks for, and what the firmware is built with. *)
Urls    == {"https://", "http://", "HTTP://"}
Configs == [url : Urls, cert_pem : BOOLEAN, skip_common_name_check : BOOLEAN,
            bind_netif : BOOLEAN]
Builds  == [ALLOW_HTTP : BOOLEAN, SKIP_SERVER_CERT_VERIFY : BOOLEAN,
            CERTIFICATE_BUNDLE : BOOLEAN]

(* esp_http_client_config_t as far as this function fills it in: trust is
   the one of cert_pem and crt_bundle_attach that is set. *)
Trusts      == {"none", "cert_pem", "esp_crt_bundle_attach", "skip_server_verify_attach"}
HttpConfigs == [url : Urls, skip_common_name_check : BOOLEAN, trust : Trusts,
                if_name : BOOLEAN]
Outcomes    == {"pending", "refused", "plain", "unverified", "verified"}

VARIABLES
    build,         \* the sdkconfig, fixed for a firmware
    pc,            \* where ota_api_update() is
    config,        \* its argument
    http_config,   \* what was built from it
    err,           \* what ota_api_build_http_config() returned
    outcome        \* the connection esp_https_ota_begin() ends up with

vars == <<build, pc, config, http_config, err, outcome>>

-----------------------------------------------------------------------------

(* Mutant: a plain strncmp(). *)
IsLowerCaseHttp(url) == url = "http://"

(* Scheme names are case-insensitive. *)
IsPlainHttp(url) == url \in {"http://", "HTTP://"}

(* Mutant: with nothing to verify the server by, the function goes on. *)
TrustUnchecked(c) ==
    IF IsPlainHttp(c.url)                 THEN "none"
    ELSE IF c.cert_pem                    THEN "cert_pem"
    ELSE IF build.SKIP_SERVER_CERT_VERIFY THEN "skip_server_verify_attach"
    ELSE IF build.CERTIFICATE_BUNDLE      THEN "esp_crt_bundle_attach"
    ELSE "none"

(* Mutant: the lab option wins over the certificate the caller gave. *)
TrustLabFirst(c) ==
    IF IsPlainHttp(c.url)                 THEN IF build.ALLOW_HTTP THEN "none" ELSE "invalid"
    ELSE IF build.SKIP_SERVER_CERT_VERIFY THEN "skip_server_verify_attach"
    ELSE IF c.cert_pem                    THEN "cert_pem"
    ELSE IF build.CERTIFICATE_BUNDLE      THEN "esp_crt_bundle_attach"
    ELSE "invalid"

(* By what the server is verified; "invalid" is the ESP_ERR_INVALID_ARG exit. *)
Trust(c) ==
    IF IsPlainHttp(c.url)                 THEN IF build.ALLOW_HTTP THEN "none" ELSE "invalid"
    ELSE IF c.cert_pem                    THEN "cert_pem"
    ELSE IF build.SKIP_SERVER_CERT_VERIFY THEN "skip_server_verify_attach"
    ELSE IF build.CERTIFICATE_BUNDLE      THEN "esp_crt_bundle_attach"
    ELSE "invalid"

(* Mutant: the lab option drops the name check of every connection. *)
SkipsNameInLab(c) == c.skip_common_name_check \/ build.SKIP_SERVER_CERT_VERIFY

SkipsName(c) ==
    c.skip_common_name_check \/ Trust(c) = "skip_server_verify_attach"

Zeroed == [url |-> "https://", skip_common_name_check |-> FALSE, trust |-> "none",
           if_name |-> FALSE]

Init ==
    /\ build \in Builds
    /\ pc = "idle"
    /\ config \in Configs
    /\ http_config = Zeroed
    /\ err = "OK"
    /\ outcome = "pending"

(* The application starts an update with any configuration. *)
Update(c) ==
    /\ pc = "idle"
    /\ pc' = "configuring"
    /\ config' = c
    /\ http_config' = Zeroed
    /\ err' = "OK"
    /\ outcome' = "pending"
    /\ UNCHANGED build

(* Mutant: the invalid configuration is logged but not returned. *)
BuildUnreturned ==
    /\ pc = "configuring"
    /\ http_config' = [url |-> config.url,
                       skip_common_name_check |-> SkipsName(config),
                       trust |-> Trust(config),
                       if_name |-> config.bind_netif]
    /\ pc' = "connecting"
    /\ UNCHANGED <<build, config, err, outcome>>

(* ota_api_build_http_config(); on the error exit the half-filled local of
   run_update() is gone with its frame. *)
BuildHttpConfig ==
    /\ pc = "configuring"
    /\ \/ /\ Trust(config) = "invalid"
          /\ err' = "INVALID_ARG"
          /\ pc' = "idle"
          /\ UNCHANGED http_config
       \/ /\ Trust(config) # "invalid"
          /\ http_config' = [url |-> config.url,
                             skip_common_name_check |-> SkipsName(config),
                             trust |-> Trust(config),
                             if_name |-> config.bind_netif]
          /\ pc' = "connecting"
          /\ UNCHANGED err
    /\ UNCHANGED <<build, config, outcome>>

(* esp_https_ota_begin() asks for something to verify the server by, unless
   it is built to allow plain HTTP; then the transport follows the URL's
   scheme, in whatever case it is written. *)
HttpsOtaBegin ==
    /\ pc = "connecting"
    /\ pc' = "idle"
    /\ outcome' =
         IF http_config.trust = "none" /\ ~build.ALLOW_HTTP THEN "refused"
         ELSE IF http_config.url \in {"http://", "HTTP://"} THEN "plain"
         ELSE IF http_config.trust \in {"none", "skip_server_verify_attach"} THEN "unverified"
         ELSE "verified"
    /\ UNCHANGED <<build, config, http_config, err>>

Next == (\E c \in Configs : Update(c)) \/ BuildHttpConfig \/ HttpsOtaBegin

Spec == Init /\ [][Next]_vars

-----------------------------------------------------------------------------
(* Properties *)

TypeOK ==
    /\ build \in Builds
    /\ pc \in {"idle", "configuring", "connecting"}
    /\ config \in Configs
    /\ http_config \in HttpConfigs
    /\ err \in {"OK", "INVALID_ARG"}
    /\ outcome \in Outcomes

(* README.md, "Plain HTTP": no image travels unencrypted unless the build
   allows it, however the scheme of the URL is written - also when the caller
   gave a certificate, which by itself would open esp_https_ota's gate. *)
PlainOnlyIfAllowed == outcome = "plain" => build.ALLOW_HTTP

(* ota-api.h:94-99: a TLS connection to a server nobody verified exists only in
   a lab build and only for a caller who named no certificate. *)
UnverifiedOnlyInLab ==
    outcome = "unverified" => build.SKIP_SERVER_CERT_VERIFY /\ ~config.cert_pem

(* ota-api-http.c:109: a configuration this component accepts is never turned
   away by the gate in esp_https_ota_begin(), and one it turns away could not
   have led to a verified connection. *)
GateNeverSurprises ==
    /\ outcome # "refused"
    /\ err = "INVALID_ARG" /\ config.url = "https://"
         => ~config.cert_pem /\ ~build.CERTIFICATE_BUNDLE

(* The name in the certificate goes unchecked on a verified connection only
   when the caller asked for that. *)
NameCheckKept ==
    outcome = "verified" /\ http_config.skip_common_name_check
        => config.skip_common_name_check
=============================================================================
