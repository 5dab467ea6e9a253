-------------------------------- MODULE Sync --------------------------------
(* sync_catalog of the topups service, at the grain of PostgreSQL's READ     *)
(* COMMITTED: a statement sees what was committed when it began and what its *)
(* own transaction wrote, a row that a transaction wrote is its own until it *)
(* ends, and a statement that waited for a row looks at that row again and   *)
(* at no other.  The periodic task, its repetition and the command of an     *)
(* administrator may run at once, and nothing keeps them apart.              *)
EXTENDS Naturals

CONSTANTS Items,      \* products of one provider
          Operators,
          Runs,       \* runs of sync_catalog that may overlap
          Catalogues, \* what the provider may answer: the operator of a product
          MaxFetches, \* how many runs begin
          Nil         \* no product, and no run

Row  == [op : Operators, active : BOOLEAN]

ASSUME SyncAssumption ==
  /\ Catalogues \subseteq [Items -> Operators \cup { Nil }]
  /\ MaxFetches \in Nat
  /\ Nil \notin Operators \cup Items \cup Runs \cup Row

VARIABLES listing,   \* the provider's catalogue
          stored,    \* TopupProduct, as committed
          on,        \* the operators that are active, as committed
          owner,     \* the run that wrote a product and did not end
          draft,     \* what it wrote
          ownerOf,   \* the run that wrote an operator and did not end
          draftOn,   \* the operators written as active
          run,       \* what each run is doing
          fetches

vars == << listing, stored, on, owner, draft, ownerOf, draftOn, run, fetches >>

\* item: the product whose operator was just looked up.  todo: the products
\* that are left of the loop.  victims: the rows that are left of an UPDATE.
Idle == [ pc |-> "idle", want |-> [g \in Items |-> Nil], item |-> Nil,
          todo |-> {}, victims |-> {} ]

Progress == [ pc : { "idle", "upsert", "products", "operators" },
              want : [Items -> Operators \cup { Nil }],
              item : Items \cup { Nil },
              todo : SUBSET Items,
              victims : SUBSET (Items \cup Operators) ]

TypeOK ==
  /\ listing \in Catalogues
  /\ stored  \in [Items -> Row \cup { Nil }]
  /\ on      \subseteq Operators
  /\ owner   \in [Items -> Runs \cup { Nil }]
  /\ draft   \in [Items -> Row \cup { Nil }]
  /\ ownerOf \in [Operators -> Runs \cup { Nil }]
  /\ draftOn \subseteq Operators
  /\ run     \in [Runs -> Progress]
  /\ fetches \in 0 .. MaxFetches

Active(p)       == p # Nil /\ p.active
\* What a statement of run r reads of a product and of an operator.
View(r, g)      == IF owner[g] = r THEN draft[g] ELSE stored[g]
IsOn(r, o)      == IF ownerOf[o] = r THEN o \in draftOn ELSE o \in on
Free(r, g)      == owner[g] \in { Nil, r }
FreeOf(r, o)    == ownerOf[o] \in { Nil, r }

Write(r, g, p) == owner' = [owner EXCEPT ![g] = r] /\ draft' = [draft EXCEPT ![g] = p]
WriteOn(r, o, active) ==
  /\ ownerOf' = [ownerOf EXCEPT ![o] = r]
  /\ draftOn' = IF active THEN draftOn \cup { o } ELSE draftOn \ { o }

\* A run goes on with what it was answered.
GoesOn(r, pc, item, todo, victims) ==
  run' = [run EXCEPT ![r] = [ pc |-> pc, want |-> run[r].want, item |-> item,
                              todo |-> todo, victims |-> victims ]]

\* Nothing was synchronised yet.
Init ==
  /\ listing \in Catalogues
  /\ stored = [g \in Items |-> Nil] /\ on = {}
  /\ owner = [g \in Items |-> Nil] /\ draft = [g \in Items |-> Nil]
  /\ ownerOf = [o \in Operators |-> Nil] /\ draftOn = {}
  /\ run = [r \in Runs |-> Idle]
  /\ fetches = 0

-----------------------------------------------------------------------------
ChangeListing(c) ==
  /\ listing' = c
  /\ UNCHANGED << stored, on, owner, draft, ownerOf, draftOn, run, fetches >>

\* fetch_catalog, before the transaction.
FetchCatalog(r) ==
  /\ run[r] = Idle
  /\ fetches < MaxFetches
  /\ fetches' = fetches + 1
  /\ run' = [run EXCEPT ![r] = [ pc |-> "upsert", want |-> listing, item |-> Nil,
                                 todo |-> { g \in Items : listing[g] # Nil }, victims |-> {} ]]
  /\ UNCHANGED << listing, stored, on, owner, draft, ownerOf, draftOn >>

\* _upsert_operator of the next product: written once in a run, for all its
\* products, and waited for while another run has it.
UpsertOperator(r, g) ==
  LET o == run[r].want[g] IN
  /\ run[r].pc = "upsert" /\ run[r].item = Nil /\ g \in run[r].todo
  /\ FreeOf(r, o)
  /\ WriteOn(r, o, TRUE)
  /\ GoesOn(r, "upsert", g, run[r].todo, {})
  /\ UNCHANGED << listing, stored, on, owner, draft, fetches >>

\* _upsert_product: a row that another run is inserting is waited for as well.
UpsertProduct(r, g) ==
  /\ run[r].pc = "upsert" /\ run[r].item = g /\ g \in run[r].todo
  /\ Free(r, g)
  /\ Write(r, g, [op |-> run[r].want[g], active |-> TRUE])
  /\ GoesOn(r, "upsert", Nil, run[r].todo \ { g }, {})
  /\ UNCHANGED << listing, stored, on, ownerOf, draftOn, fetches >>

\* The products the first UPDATE finds: active, and not seen.
Unseen(r) == { g \in Items : Active(View(r, g)) /\ run[r].want[g] = Nil }
\* The operators the second one finds: active, and no active product names them.
Empty(r)  == { o \in Operators : IsOn(r, o) /\ \A g \in Items :
                 Active(View(r, g)) => View(r, g).op # o }

BeginProducts(r) ==
  /\ run[r].pc = "upsert" /\ run[r].item = Nil /\ run[r].todo = {}
  /\ GoesOn(r, "products", Nil, {}, Unseen(r))
  /\ UNCHANGED << listing, stored, on, owner, draft, ownerOf, draftOn, fetches >>

SwitchOff(r, g) ==
  /\ run[r].pc = "products" /\ g \in run[r].victims
  /\ Free(r, g)
  /\ IF Active(View(r, g)) THEN Write(r, g, [View(r, g) EXCEPT !.active = FALSE])
     ELSE UNCHANGED << owner, draft >>
  /\ GoesOn(r, "products", Nil, {}, run[r].victims \ { g })
  /\ UNCHANGED << listing, stored, on, ownerOf, draftOn, fetches >>

BeginOperators(r) ==
  /\ run[r].pc = "products" /\ run[r].victims = {}
  /\ GoesOn(r, "operators", Nil, {}, Empty(r))
  /\ UNCHANGED << listing, stored, on, owner, draft, ownerOf, draftOn, fetches >>

SwitchOffOperator(r, o) ==
  /\ run[r].pc = "operators" /\ o \in run[r].victims
  /\ FreeOf(r, o)
  /\ IF IsOn(r, o) THEN WriteOn(r, o, FALSE) ELSE UNCHANGED << ownerOf, draftOn >>
  /\ GoesOn(r, "operators", Nil, {}, run[r].victims \ { o })
  /\ UNCHANGED << listing, stored, on, owner, draft, fetches >>

\* What a run had written is everybody's, or nobody's.
Release(r) ==
  /\ owner'   = [g \in Items |-> IF owner[g] = r THEN Nil ELSE owner[g]]
  /\ ownerOf' = [o \in Operators |-> IF ownerOf[o] = r THEN Nil ELSE ownerOf[o]]
  /\ run' = [run EXCEPT ![r] = Idle]

Commit(r) ==
  /\ run[r].pc = "operators" /\ run[r].victims = {}
  /\ stored' = [g \in Items |-> View(r, g)]
  /\ on' = { o \in Operators : IsOn(r, o) }
  /\ Release(r)
  /\ UNCHANGED << listing, draft, draftOn, fetches >>

\* Mutant: each row is committed by itself, and stays when the run fails.
Mutant_NoTransaction(r) ==
  /\ run[r].pc # "idle"
  /\ stored' = [g \in Items |-> View(r, g)]
  /\ on' = { o \in Operators : IsOn(r, o) }
  /\ Release(r)
  /\ UNCHANGED << listing, draft, draftOn, fetches >>
\* A row that the constraints of the table refuse, two runs that wait for each
\* other of which PostgreSQL stops one, or a process that dies.
Abort(r) ==
  /\ run[r].pc # "idle"
  /\ Release(r)
  /\ UNCHANGED << listing, stored, on, draft, draftOn, fetches >>

Next ==
  \/ \E c \in Catalogues : ChangeListing(c)
  \/ \E r \in Runs : FetchCatalog(r) \/ BeginProducts(r) \/ BeginOperators(r) \/ Commit(r) \/ Abort(r)
  \/ \E r \in Runs, g \in Items : UpsertOperator(r, g) \/ UpsertProduct(r, g) \/ SwitchOff(r, g)
  \/ \E r \in Runs, o \in Operators : SwitchOffOperator(r, o)

Spec == Init /\ [][Next]_vars

-----------------------------------------------------------------------------
(* Properties.                                                               *)

Selling == { o \in Operators : \E g \in Items : Active(stored[g]) /\ stored[g].op = o }

\* The cashier sees the operators that have something to sell and no other: "un
\* operador sin ningun producto activo tampoco debe mostrarse", and one with
\* products must not be hidden.  Two runs that overlap keep it, by the rows they
\* wait for; of three, one may commit between what the two others saw.
OperatorsHaveProducts == on = Selling

\* "Un producto que desaparece del catalogo del proveedor se marca inactivo":
\* what a run leaves on sale is what the provider answered to it.
LeavesItsCatalogue ==
  [][\A r \in Runs : Commit(r) =>
       \A g \in Items : Active(stored'[g]) <=> run[r].want[g] # Nil]_vars
=============================================================================
