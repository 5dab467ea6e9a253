----------------------------- MODULE Commercial -----------------------------
(* The commercial catalogue of topups: what an operator publishes, what each *)
(* provider says it sells, the mapping between the two, and whether a        *)
(* product may be sold.  Commands load the published catalogue, import the   *)
(* provider's and propose mappings; people approve them.                     *)
EXTENDS Naturals, Sequences, FiniteSets

CONSTANTS Products,
          LineOf,     \* [Products -> Lines]: operator and family
          Lines,
          Providers, Main, \* Main: the configured TOPUP_PROVIDER
          Rank,       \* [Providers -> Nat]: priority of its mappings, then slug
          Skus,
          Amounts,    \* prices and amounts, in cents
          Data,       \* contents of a version: validity, megabytes, benefits
          Feeds,      \* catalogues a provider may answer with
          FileStatus, \* statuses in the published catalogue
          MaxSteps,   \* commands and changes there are
          None        \* nothing

VARIABLES product,   \* CommercialProduct
          versions,  \* CommercialProductVersion: the last is the current one
          row,       \* ProviderCatalogItem
          mapping,   \* ProviderProductMapping
          mode,      \* environment each adapter runs in
          proposal,  \* what a run of emparejar computed and did not save yet
          approved,  \* history: what a person approved of a mapping
          steps

catalogVars == << product, versions, row, mapping, mode, proposal, approved, steps >>

Envs     == { "SANDBOX", "PRODUCTION" }
Statuses == { "AVAILABLE", "DISABLED", "EXPIRED", "REVIEW_REQUIRED", "SANDBOX_ONLY" }

\* Mappings are unique by product, provider and environment, and rows of the
\* provider's catalogue by provider, environment and SKU.
MapKeys == Products \X Providers \X Envs
RowKeys == Providers \X Envs \X Skus

\* The parts of an identity a fingerprint is made of.  An amount of None is a
\* product of free amount; a fixed amount is in the SKU.
Identities == [line : Lines, amount : Amounts \cup { None }]

ASSUME CommercialAssumption ==
  /\ LineOf \in [Products -> Lines]
  /\ Main \in Providers
  /\ Rank \in [Providers -> Nat]
  /\ \A q, r \in Providers : q # r => Rank[q] # Rank[r]
  /\ None \notin Amounts \cup Data \cup Skus
  /\ None \notin [is : Identities, active : BOOLEAN]
  /\ Feeds \subseteq [Skus -> Identities \cup { None }] /\ FileStatus \subseteq Statuses

\* overdue: its last day has passed.
CommercialProduct == [price : Amounts, active : BOOLEAN, status : Statuses, overdue : BOOLEAN]
CommercialProductVersion == [price : Amounts, data : Data]
ProviderCatalogItem == [is : Identities, active : BOOLEAN]
\* is: the identity it was compared with when it was reviewed.
ProviderProductMapping == [sku : Skus, is : Identities, enabled : BOOLEAN,
                           status : { "OK", "REVIEW_REQUIRED" }]

CommercialTypeOK ==
  /\ product \in [Products -> CommercialProduct \cup { None }]
  /\ versions \in [Products -> Seq(CommercialProductVersion)]
  /\ row \in [RowKeys -> ProviderCatalogItem \cup { None }]
  /\ mapping \in [MapKeys -> ProviderProductMapping \cup { None }]
  /\ mode \in [Providers -> Envs]
  /\ DOMAIN proposal \subseteq MapKeys

CommercialInit ==
  /\ product = [p \in Products |-> None]
  /\ versions = [p \in Products |-> << >>]
  /\ row = [k \in RowKeys |-> None]
  /\ mapping = [k \in MapKeys |-> None]
  /\ mode = [q \in Providers |-> "PRODUCTION"]
  /\ proposal = << >>
  /\ approved = [k \in MapKeys |-> None]
  /\ steps = 0

Step == steps < MaxSteps /\ steps' = steps + 1

-----------------------------------------------------------------------------
(* cargar_catalogo_comercial                                                 *)

\* _version: a new version when something changed; none without verified data.
Version(vs, price, data) ==
  LET v == [price |-> price, data |-> data] IN
  IF data = None \/ (vs # << >> /\ vs[Len(vs)] = v) THEN vs ELSE Append(vs, v)

\* Load: every product of the file is written, verified and active, with the
\* status of the file, over what a person had set.
Load(p, price, status, data) ==
  /\ Step
  /\ product' = [product EXCEPT ![p] =
       [price |-> price, active |-> TRUE, status |-> status,
        overdue |-> @ # None /\ @.overdue]]
  /\ versions' = [versions EXCEPT ![p] = Version(@, price, data)]
  /\ UNCHANGED << row, mapping, mode, proposal, approved >>

-----------------------------------------------------------------------------
(* importar_catalogo_proveedor                                               *)

\* The identity changed since the last time it was seen.
Changed(old, new) == old # None /\ old.is # new

\* Import, in the environment of the adapter: rows are written, those not seen
\* are withdrawn, and mappings of a SKU that changed go to review.  An empty
\* catalogue is refused.
Import(q, feed) ==
  LET e == mode[q]
      seen == { s \in Skus : feed[s] # None } IN
  /\ Step
  /\ seen # {}
  /\ row' = [k \in RowKeys |->
       IF k[1] # q \/ k[2] # e THEN row[k]
       ELSE IF k[3] \in seen THEN [is |-> feed[k[3]], active |-> TRUE]
       ELSE IF row[k] # None THEN [row[k] EXCEPT !.active = FALSE] ELSE None]
  /\ mapping' = [k \in MapKeys |->
       IF /\ mapping[k] # None /\ k[2] = q /\ k[3] = e
          /\ mapping[k].sku \in seen
          /\ Changed(row[<< q, e, mapping[k].sku >>], feed[mapping[k].sku])
       THEN [mapping[k] EXCEPT !.status = "REVIEW_REQUIRED"] ELSE mapping[k]]
  /\ UNCHANGED << product, versions, mode, proposal, approved >>

-----------------------------------------------------------------------------
(* emparejar_catalogo_proveedor                                              *)

\* emparejar: the active rows of the product's operator and family that
\* declare its price.
Exact(p, q, e) ==
  { s \in Skus :
      LET r == row[<< q, e, s >>] IN
      r # None /\ r.active /\ r.is = [line |-> LineOf[p], amount |-> product[p].price] }

\* The only candidate; two are ambiguous and a person has to decide.
Proposed(p, q, e) ==
  IF Cardinality(Exact(p, q, e)) = 1
  THEN LET s == CHOOSE s \in Exact(p, q, e) : TRUE IN [sku |-> s, is |-> row[<< q, e, s >>].is]
  ELSE None

\* emparejar_catalogo: one proposal for each active product, all of them
\* before the first is saved.
Match(q, e) ==
  LET found == { k \in MapKeys : /\ k[2] = q /\ k[3] = e
                                 /\ product[k[1]] # None /\ product[k[1]].active
                                 /\ Proposed(k[1], q, e) # None } IN
  /\ Step
  /\ proposal = << >>
  /\ \E s \in Skus : row[<< q, e, s >>] # None /\ row[<< q, e, s >>].active
  /\ proposal' = [k \in found |-> Proposed(k[1], q, e)]
  /\ UNCHANGED << product, versions, row, mapping, mode, approved >>

\* Mutant: update_or_create leaves what a person had approved.
Mutant_KeepsApproval(old, it) ==
  [sku |-> it.sku, is |-> it.is,
   enabled |-> old # None /\ old.enabled,
   status |-> IF old = None THEN "REVIEW_REQUIRED" ELSE old.status]
\* What guardar writes, over any mapping there was: never enabled.
Saved(old, it) == [sku |-> it.sku, is |-> it.is, enabled |-> FALSE, status |-> "REVIEW_REQUIRED"]

\* guardar, one product after the other.
Save(k) ==
  /\ k \in DOMAIN proposal
  /\ mapping' = [mapping EXCEPT ![k] = Saved(@, proposal[k])]
  /\ proposal' = [j \in DOMAIN proposal \ { k } |-> proposal[j]]
  /\ UNCHANGED << product, versions, row, mode, approved, steps >>

-----------------------------------------------------------------------------
(* People, and the deployment                                                *)

\* A person compares the product, the mapping and the provider's row.
Approve(k) ==
  LET m == mapping[k] IN
  /\ Step
  /\ m # None /\ product[k[1]] # None
  /\ row[<< k[2], k[3], m.sku >>] # None
  /\ row[<< k[2], k[3], m.sku >>].is = m.is
  /\ m.is.amount \in { None, product[k[1]].price }
  /\ mapping' = [mapping EXCEPT ![k].enabled = TRUE, ![k].status = "OK"]
  /\ approved' = [approved EXCEPT ![k] = [sku |-> m.sku, is |-> m.is]]
  /\ UNCHANGED << product, versions, row, mode, proposal >>

SetStatus(p, status, active) ==
  /\ Step
  /\ product[p] # None
  /\ product' = [product EXCEPT ![p].status = status, ![p].active = active]
  /\ UNCHANGED << versions, row, mapping, mode, proposal, approved >>

\* available_until passes.
Expire(p) ==
  /\ Step
  /\ product[p] # None /\ ~ product[p].overdue
  /\ product' = [product EXCEPT ![p].overdue = TRUE]
  /\ UNCHANGED << versions, row, mapping, mode, proposal, approved >>

\* An adapter is set to its other environment.
Reconfigure(q, e) ==
  /\ Step
  /\ mode[q] # e
  /\ mode' = [mode EXCEPT ![q] = e]
  /\ UNCHANGED << product, versions, row, mapping, proposal, approved >>

CommercialNext ==
  \/ \E p \in Products, price \in Amounts, status \in FileStatus,
        data \in Data \cup { None } : Load(p, price, status, data)
  \/ \E q \in Providers : \E feed \in Feeds : Import(q, feed)
  \/ \E q \in Providers, e \in Envs : Match(q, e)
  \/ \E k \in MapKeys : Save(k) \/ Approve(k)
  \/ \E p \in Products : Expire(p)
  \/ \E p \in Products, status \in Statuses, active \in BOOLEAN : SetStatus(p, status, active)
  \/ \E q \in Providers, e \in Envs : Reconfigure(q, e)

CommercialSpec == CommercialInit /\ [][CommercialNext]_catalogVars

-----------------------------------------------------------------------------
(* What may be sold                                                          *)

\* es_utilizable
Usable(k) == mapping[k] # None /\ mapping[k].enabled /\ mapping[k].status = "OK"

\* Mappings that may serve the product in the environment of the main provider.
Candidates(p) == { q \in Providers : Usable(<< p, q, mode[Main] >>) }

\* disponibilidad: what a person decided comes first, then who can execute it.
Availability(p, ready) ==
  LET c == product[p] IN
  IF ~ c.active THEN "DISABLED"
  ELSE IF c.status # "AVAILABLE" THEN c.status
  ELSE IF c.overdue THEN "EXPIRED"
  ELSE IF Candidates(p) = {} THEN "PROVIDER_NOT_MAPPED"
  ELSE IF Candidates(p) \cap ready = {} THEN "PROVIDER_OFFLINE" ELSE "AVAILABLE"

\* elegir_ruta: the first of those that are up.
Route(p, ready) ==
  IF product[p] = None \/ Availability(p, ready) # "AVAILABLE" THEN None
  ELSE CHOOSE q \in Candidates(p) \cap ready :
         \A r \in Candidates(p) \cap ready : Rank[q] <= Rank[r]

\* ruta_para_reintento: the original provider or nobody, whether it is up.
RetryRoute(p, original) ==
  IF Usable(<< p, original, mode[Main] >>) THEN original ELSE None

-----------------------------------------------------------------------------
\* Whatever sells or is retried, with any providers up, was approved by a
\* person as it is, and is what the provider last said of that SKU: no import,
\* match or late save slips in between.
SoldAsReviewed ==
  \A p \in Products : \A ready \in SUBSET Providers :
    \A q \in ({ Route(p, ready) } \cup { RetryRoute(p, r) : r \in Providers }) \ { None } :
      LET k == << p, q, mode[Main] >>
          m == mapping[k] IN
      /\ approved[k] = [sku |-> m.sku, is |-> m.is]
      /\ row[<< q, mode[Main], m.sku >>].is = m.is

\* A mapping is a match of the operator, the family, the SKU and the amount: a
\* product that sells costs what the provider delivers.
PriceIsDelivered ==
  \A p \in Products : \A ready \in SUBSET Providers :
    Route(p, ready) # None =>
      mapping[<< p, Route(p, ready), mode[Main] >>].is.amount \in { None, product[p].price }
=============================================================================
