----------------------------- MODULE MockRoutes -----------------------------
(***************************************************************************)
(* What the console is answered in mock mode: the route handlers under     *)
(* app/api, their data, the review queue built into the dashboard and the  *)
(* path map of lib/api-client.ts.  Pure definitions.                       *)
(***************************************************************************)
EXTENDS Naturals, FiniteSets, Sequences

(* resolveUrl: the handlers of mock mode; any other path has no handler,   *)
(* and is not asked for in mock mode.                                      *)
Endpoint == {"/anomalies", "/graph", "/threat-intel", "/audit", "/review",
             "/narrative", "/soar"}
MockPathMap == {"/anomalies", "/graph", "/threat-intel"}
ResolveUrl(mock, endpoint) ==
  IF ~mock THEN "backend" ELSE IF endpoint \in MockPathMap THEN "handler" ELSE "none"

-----------------------------------------------------------------------------
(* GET /api/graph                                                          *)

Assets == {"gw-external", "web-dmz", "mysql-db", "git-repo", "active-directory",
           "backup-s3", "workstation-dev", "workstation-finance"}
Attacks == {"portscan", "sqli", "ssh-brute", "kerberos", "exfil", "priv-esc"}
Techniques == {"t1046", "t1190", "t1110", "t1558", "t1020", "t1068"}
GraphNodes == Assets \cup Attacks \cup Techniques

GraphNodeType(n) == CASE n \in Assets -> "asset"
                      [] n \in Attacks -> "attack"
                      [] n \in Techniques -> "mitre"

GraphLinks ==
  {<<"t1046", "portscan">>, <<"t1190", "sqli">>, <<"t1110", "ssh-brute">>,
   <<"t1558", "kerberos">>, <<"t1020", "exfil">>, <<"t1068", "priv-esc">>,
   <<"portscan", "gw-external">>, <<"sqli", "web-dmz">>, <<"ssh-brute", "mysql-db">>,
   <<"priv-esc", "git-repo">>, <<"kerberos", "active-directory">>,
   <<"exfil", "backup-s3">>, <<"gw-external", "web-dmz">>, <<"web-dmz", "mysql-db">>,
   <<"mysql-db", "git-repo">>, <<"git-repo", "workstation-dev">>,
   <<"workstation-dev", "active-directory">>, <<"active-directory", "backup-s3">>,
   <<"workstation-dev", "workstation-finance">>}

(* lib/graph-data.ts, drawn when the answer is empty or missing.           *)
FallbackNodes == {"gw-external", "portscan", "t1046", "web-dmz", "sqli", "t1190"}
FallbackLinks == {<<"t1046", "portscan">>, <<"portscan", "gw-external">>,
                  <<"t1190", "sqli">>, <<"sqli", "web-dmz">>,
                  <<"gw-external", "web-dmz">>}

(* The renderer stops with an error at a link to a node it does not have.  *)
Closed(nodes, links) == links \subseteq nodes \X nodes

-----------------------------------------------------------------------------
(* GET /api/alerts, and the incidents of mock mode                         *)

AttackTemplates ==
  {[reason |-> "PortScan", assets |-> {"dst-80-win-255", "srv-iis-dmz-01", "gw-external-01"}],
   [reason |-> "DDoS", assets |-> {"edge-router-primary", "srv-nginx-loadbalancer"}],
   [reason |-> "BruteForce", assets |-> {"srv-linux-ssh-01", "srv-linux-git-02"}],
   [reason |-> "SQLInjection", assets |-> {"srv-mysql-db-01", "srv-node-api-01"}],
   [reason |-> "Botnet", assets |-> {"workstation-sales-12", "workstation-hr-05",
                                     "workstation-dev-44"}],
   [reason |-> "Exfiltration", assets |-> {"srv-backup-s3", "srv-file-share"}],
   [reason |-> "CredentialUse", assets |-> {"win-active-directory-01",
                                            "win-domain-controller-02"}],
   [reason |-> "PrivEscalation", assets |-> {"srv-linux-git-02", "workstation-dev-44"}],
   [reason |-> "Ransomware", assets |-> {"workstation-finance-01", "srv-file-share"}],
   [reason |-> "Phishing", assets |-> {"workstation-sales-15", "workstation-hr-09"}],
   [reason |-> "InternalScan", assets |-> {"workstation-dev-12", "srv-print-01"}]}

(* What one of the 80 generated alerts can be about.                       *)
GenerateMockAlert == UNION {{[asset |-> a, reason |-> t.reason] : a \in t.assets} :
                            t \in AttackTemplates}

MockIncidents == {[id |-> "INC-904", asset |-> "dst-80-win-255", reason |-> "DDoS"],
                  [id |-> "INC-302", asset |-> "src-telnet-iot-node", reason |-> "Bot"],
                  [id |-> "INC-122", asset |-> "dst-80-win-255", reason |-> "PortScan"]}

(* Approving an incident contains the alerts of its asset and reason.      *)
CanHit(incident) == [asset |-> incident.asset, reason |-> incident.reason] \in GenerateMockAlert

(* Without a limit the offset is ignored.                                  *)
AlertsPage(all, limited, limit, offset) ==
  IF ~limited THEN all
  ELSE SubSeq(all, offset + 1, IF offset + limit < Len(all) THEN offset + limit ELSE Len(all))

-----------------------------------------------------------------------------
(* GET /api/threat-intel; names are in lower case                          *)

(* A document of the corpus: its type, the label and the technique it is   *)
(* mapped to; sql and brute are the labels with "sql" and "brute" in them. *)
DocType == {"CVE", "CERT-In", "other"}

(* The MITRE entry shown with it: a key equal to the label, or Bot.        *)
MitreInfo(label, keys) ==
  {k \in keys : k = label \/ (label = "botnet" /\ k = "bot")}

(* The label matches by name, by technique or as one of three families.    *)
Related(label, doc, sql, brute) ==
  \/ doc.label = label \/ doc.technique = label
  \/ label = "botnet" /\ doc.label = "bot"
  \/ label = "sqlinjection" /\ doc.label \in sql
  \/ label = "bruteforce" /\ (doc.label \in brute \/ doc.technique = "t1110")

MatchedDocs(label, corpus, sql, brute) == {d \in corpus : Related(label, d, sql, brute)}

DefaultAnswer == [related_cves |-> 1, cert_in_advisories |-> 0, total |-> 1]

OfType(docs, type) == Cardinality({d \in docs : d.type = type})

(* Without any match one generic record stands in.                         *)
ThreatIntel(label, corpus, sql, brute) ==
  LET matched == MatchedDocs(label, corpus, sql, brute)
  IN IF matched = {} THEN DefaultAnswer
     ELSE [related_cves |-> OfType(matched, "CVE"),
           cert_in_advisories |-> OfType(matched, "CERT-In"),
           total |-> Cardinality(matched)]
=============================================================================
