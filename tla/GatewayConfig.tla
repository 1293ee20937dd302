---------------------------- MODULE GatewayConfig ----------------------------
(***************************************************************************)
(* Which gateway the frontend talks to.  The page computes it when it      *)
(* loads (frontend-vite/src/config.js); the server that delivers the page  *)
(* computes it again, on its own, for the Content-Security-Policy of the   *)
(* response (frontend-vite/vite.config.js).                                *)
(***************************************************************************)
CONSTANTS
  Hosts,                      \* hosts that a configured URL may name
  Unset, Blank, Unparsable    \* VITE_VAMS_GATEWAY_URL: absent, spaces, no URL

Parts == {"username", "password", "pathname", "search", "hash"}

\* A parsed URL: its origin, and the parts it has beyond an origin.
URLs == [protocol : {"http:", "https:"}, host : Hosts, parts : SUBSET Parts]

LOCAL_GATEWAY_URL ==
  [protocol |-> "http:", host |-> "localhost:8000", parts |-> {}]
TESTNET_GATEWAY_URL ==
  [protocol |-> "https:", host |-> "gateway.vams.network", parts |-> {}]

ASSUME ConfigConstants ==
  /\ {LOCAL_GATEWAY_URL.host, TESTNET_GATEWAY_URL.host} \subseteq Hosts
  /\ Unset \notin URLs /\ Blank \notin URLs /\ Unparsable \notin URLs
  /\ Unset # Blank

Settings == URLs \cup {Unset, Blank, Unparsable}

\* `npm run dev`, and `npm run build` then `npm run preview`.
Deployments ==
  [mode : {"development", "production"}, VITE_VAMS_GATEWAY_URL : Settings]

PROD(d) == d.mode = "production"

Throws == [protocol |-> "none", host |-> "none"]
Self   == [protocol |-> "self", host |-> "self"]

OriginOf(url) == [protocol |-> url.protocol, host |-> url.host]

\* The checks both files make of the URL they parsed.
Checked(url, mustBeSecure) ==
  IF \/ url \notin URLs
     \/ mustBeSecure /\ url.protocol # "https:"
     \/ url.parts # {}
  THEN Throws
  ELSE OriginOf(url)

resolveGatewayUrl(d) ==
  LET configured == IF d.VITE_VAMS_GATEWAY_URL = Blank THEN Unset
                    ELSE d.VITE_VAMS_GATEWAY_URL
      default    == IF PROD(d) THEN TESTNET_GATEWAY_URL ELSE LOCAL_GATEWAY_URL
  IN  Checked(IF configured = Unset THEN default ELSE configured, PROD(d))

\* Mutant: a preview of the production build that keeps the local default.
gatewayOriginLocal(d) ==
  LET configured == d.VITE_VAMS_GATEWAY_URL
  IN  Checked(IF configured = Unset THEN LOCAL_GATEWAY_URL ELSE configured, FALSE)

gatewayOrigin(d) ==
  LET configured == d.VITE_VAMS_GATEWAY_URL
      default    == IF d.mode = "development" THEN LOCAL_GATEWAY_URL
                    ELSE TESTNET_GATEWAY_URL
  IN  Checked(IF configured = Unset THEN default ELSE configured,
              d.mode # "development")

\* The server's configuration loads, and so does the page's.
Serves(d) == gatewayOrigin(d) # Throws
Loads(d)  == resolveGatewayUrl(d) # Throws

connectSrc(d) == {Self, gatewayOrigin(d)}

\* The policy the dev and the preview server send with the page lets it poll.
MayPoll(d) == resolveGatewayUrl(d) \in connectSrc(d)
=============================================================================
