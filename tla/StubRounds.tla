------------------------------ MODULE StubRounds ------------------------------
(***************************************************************************)
(* Environment stubs for the names the libraries miss                      *)
(* (compiler/intake/stubs/): the gaps are collected from the intake        *)
(* results, a language model declares them in batches, every library that  *)
(* needs a stub is built with it, failing stubs are asked for again, then  *)
(* declared from their call sites, and what passes together is frozen.     *)
(*                                                                         *)
(* The corpus `env' is a record: sites (where a name is used: [name, lib,  *)
(* use, args, type, counts]), fixed (names no declaration can provide),    *)
(* batch (the request a name is asked in) and broken (libraries whose build*)
(* fails for reasons no stub is blamed for).  A site counts unless its unit*)
(* failed the intake: only for missing names, then a further failure is    *)
(* passed over, or for more, then the unit is blanked.  The sites that     *)
(* count are those in the dependency files of a library, which its report  *)
(* does not list.  A declaration is [from, misfit, mentions, hollow]: who  *)
(* wrote it, the libraries some site of which does not compile with it, the*)
(* stubs it names, and whether it has no definition to link.               *)
(***************************************************************************)
EXTENDS Naturals, FiniteSets, FiniteSetsExt

CONSTANTS StubRoundLimit,   \* --max-rounds
          Budget,           \* --budget, in requests
          Askers,           \* the threads of the pool
          Answers           \* the declarations the model may answer with

ASSUME StubAssumption == StubRoundLimit > 0 /\ Askers > 0

VARIABLES env, gen

stubVars == <<env, gen>>

NoDeclaration == [from |-> "nobody", misfit |-> {}, mentions |-> {}, hollow |-> FALSE]
NoStubs == [stage |-> "none"]

-----------------------------------------------------------------------------
(* The gaps.                                                               *)

SitesOf(e, k) == {x \in e.sites : x.name = k /\ x.use # "formal"}
Uses(e, k, use) == {x \in SitesOf(e, k) : x.use = use}

(* A name that is only spelled as a qualifier is a missing library.        *)
Gaps(e) ==
  {k \in {x.name : x \in e.sites} :
     Uses(e, k, "call") \cup Uses(e, k, "type") \cup Uses(e, k, "value") # {}}
Libraries(e, k) == {x.lib : x \in SitesOf(e, k)}
AllLibraries(e) == {x.lib : x \in e.sites}
Declarable(e, k) == k \notin e.fixed

(* The libraries in which a misfit is held against the stub.               *)
Callers(e, k) == {x.lib : x \in {y \in SitesOf(e, k) : y.counts}}

Kind(e, k) == IF Uses(e, k, "type") # {} THEN "TYPE"
              ELSE IF Uses(e, k, "call") # {} THEN "FUNCTION" ELSE "VAR_GLOBAL"

(* The type most sites agree on, the first by name among equals.           *)
KnownTypes(sites) == {x.type : x \in sites} \ {"?"}
Best(sites) ==
  LET votes(t) == Cardinality({x \in sites : x.type = t})
      first == <<"BOOL", "DINT", "INT">>
      top == {i \in 1..3 : first[i] \in KnownTypes(sites)
                /\ \A t \in KnownTypes(sites) : votes(t) <= votes(first[i])}
  IN  IF KnownTypes(sites) = {} THEN "?" ELSE first[Min(top)]

MostArgs(sites) ==
  CHOOSE a \in {x.args : x \in sites} :
    \A b \in {x.args : x \in sites} : Cardinality({x \in sites : x.args = b})
                                        <= Cardinality({x \in sites : x.args = a})

(* A call site compiles with a signature of its arity and its type.        *)
Misfits(e, k, args, type) ==
  {x.lib : x \in {y \in SitesOf(e, k) :
                    y.counts /\ (y.args # args \/ (y.type # "?" /\ y.type # type))}}
Signature(e, k, who, type) ==
  [from |-> who, mentions |-> {}, hollow |-> FALSE,
   misfit |-> Misfits(e, k, MostArgs(SitesOf(e, k)), type)]

(* The signature the call sites determine, or none: calls of one arity and *)
(* known types, a structure with known members, a value of known type.     *)
InferredDeclaration(e, k) ==
  LET sites == SitesOf(e, k)
  IN  IF Best(sites) = "?" \/ (Kind(e, k) = "FUNCTION" /\ Cardinality({x.args : x \in sites}) # 1)
      THEN NoDeclaration
      ELSE Signature(e, k, "inferred", Best(sites))

(* The last resort always declares something.                              *)
MinimalDeclaration(e, k) ==
  LET sites == SitesOf(e, k)
  IN  Signature(e, k, "minimal", IF Best(sites) = "?" THEN "DINT" ELSE Best(sites))

Fallback(e, k) == IF InferredDeclaration(e, k) # NoDeclaration THEN InferredDeclaration(e, k)
                  ELSE MinimalDeclaration(e, k)

-----------------------------------------------------------------------------
(* Building the libraries with a set of stubs.                             *)

(* The stubs of the names and, transitively, the stubs those mention.      *)
Needed(stubs, names) ==
  LET far[i \in 0..Cardinality(DOMAIN stubs)] ==
        IF i = 0 THEN names \cap DOMAIN stubs
        ELSE far[i - 1] \cup ((UNION {stubs[k].mentions : k \in far[i - 1]}) \cap DOMAIN stubs)
  IN  far[Cardinality(DOMAIN stubs)]

(* The errors a library's build attributes to a stub: in the stub itself,  *)
(* at a call site that counts, or an undefined symbol at the link.         *)
Blamed(e, stubs, used, library) ==
  {k \in used : \/ stubs[k].mentions \ used # {}
                \/ library \in stubs[k].misfit \cap Callers(e, k)
                \/ stubs[k].hollow /\ \A j \in used : stubs[j].mentions \subseteq used}

(* The verdict on the stubs of `keys': each library that uses one of them  *)
(* is built, one that fails for other reasons tells nothing.               *)
Verdict(e, stubs, keys) ==
  LET names(l) == {k \in keys : l \in Libraries(e, k)}
      used(l) == Needed(stubs, names(l))
      built(k) == {l \in AllLibraries(e) : names(l) # {} /\ k \in used(l)}
      usable(k) == built(k) \ e.broken
  IN  [k \in keys |->
         IF built(k) = {} \/ usable(k) = {} THEN "unbuilt"
         ELSE IF \E l \in usable(k) : k \in Blamed(e, stubs, used(l), l) THEN "failed" ELSE "ok"]

-----------------------------------------------------------------------------
(* The rounds of generate.main().                                          *)

Declared == {k \in DOMAIN gen.cand : gen.cand[k] # NoDeclaration}
Passing == {k \in Declared : gen.status[k] = "ok"}
Only(keys) == [k \in keys |-> gen.cand[k]]

CollectGaps(e) ==
  /\ env' = e
  /\ gen' = [stage |-> "ask", round |-> 0, pending |-> Gaps(e), flight |-> {}, asked |-> {},
           todo |-> {e.batch[k] : k \in Gaps(e)},
           cand |-> [k \in Gaps(e) |-> NoDeclaration], status |-> [k \in Gaps(e) |-> "none"],
           spent |-> 0, blocked |-> FALSE, settle |-> 0, check |-> {}, alone |-> FALSE]

Asked(b) == {k \in gen.pending : env.batch[k] = b}

(* A thread takes the next request unless the budget is spent.             *)
SendBatch ==
  /\ gen.stage = "ask" /\ Cardinality(gen.flight) < Askers
  /\ \E b \in gen.todo :
       gen' = [gen EXCEPT !.todo = @ \ {b},
                      !.flight = IF gen.spent < Budget THEN @ \cup {b} ELSE @,
                      !.blocked = @ \/ gen.spent >= Budget]
  /\ UNCHANGED env

(* The reply is paid for; it declares some of the names, or is unusable.   *)
AnswerBatch ==
  /\ gen.stage = "ask"
  /\ \E b \in gen.flight :
       LET keys == {k \in Asked(b) : Declarable(env, k)}
       IN  \/ \E reply \in [keys -> Answers \cup {NoDeclaration}] :
                gen' = [gen EXCEPT !.flight = @ \ {b}, !.spent = @ + 1, !.asked = @ \cup Asked(b),
                               !.cand = [k \in DOMAIN @ |->
                                           IF k \in keys /\ reply[k] # NoDeclaration
                                           THEN [reply[k] EXCEPT !.mentions = @ \ {k}] ELSE @[k]]]
           \/ \E paid \in {0, 1} :
                gen' = [gen EXCEPT !.flight = @ \ {b}, !.spent = @ + paid, !.blocked = TRUE]
  /\ UNCHANGED env

Judge(keys, verdict) ==
  [gen EXCEPT !.status = [k \in DOMAIN @ |-> IF k \in keys THEN verdict[k] ELSE @[k]]]

(* All replies are in: the first round builds every candidate, a later one *)
(* those asked for again, and what failed somewhere is asked for again.    *)
VerifyRound ==
  /\ gen.stage = "ask" /\ gen.todo = {} /\ gen.flight = {}
  /\ LET keys == IF gen.round = 0 THEN Declared ELSE gen.asked \cap Declared
         judged == Judge(keys, Verdict(env, Only(Declared), keys))
         again == {k \in gen.asked : judged.status[k] = "failed"}
         last == gen.round + 1 = StubRoundLimit \/ again = {} \/ gen.spent >= Budget
     IN  gen' = [judged EXCEPT !.stage = IF last THEN "fallback" ELSE "ask",
                             !.round = @ + 1, !.pending = again, !.asked = {},
                             !.todo = IF last THEN {} ELSE {env.batch[k] : k \in again}]
  /\ UNCHANGED env

(* Mutant: the declaration of the call sites is taken without a build.     *)
TakeFallback ==
  /\ gen.stage = "fallback"
  /\ LET open == {k \in Gaps(env) : gen.status[k] # "ok" /\ Declarable(env, k)}
     IN  gen' = [gen EXCEPT !.cand = [k \in DOMAIN @ |-> IF k \in open THEN Fallback(env, k) ELSE @[k]],
                        !.status = [k \in DOMAIN @ |-> IF k \in open THEN "ok" ELSE @[k]],
                        !.stage = "settle"]
  /\ UNCHANGED env

(* A gap without a passing stub gets the declaration of its call sites if  *)
(* that one passes beside the stubs that do.                               *)
TryFallback ==
  /\ gen.stage = "fallback"
  /\ LET open == {k \in Gaps(env) : gen.status[k] # "ok" /\ Declarable(env, k)}
         trial == [k \in Passing \cup open |-> IF k \in open THEN Fallback(env, k) ELSE gen.cand[k]]
         verdict == Verdict(env, trial, open)
         good == {k \in open : verdict[k] = "ok"}
         judged == Judge(good, verdict)
         cand == [k \in DOMAIN gen.cand |-> IF k \in good THEN trial[k] ELSE gen.cand[k]]
     IN  gen' = [judged EXCEPT !.cand = cand, !.stage = "settle",
                             !.check = {k \in DOMAIN cand : judged.status[k] = "ok"}]
  /\ UNCHANGED env

(* Mutant: the stubs are built on their own once, and what passes is kept. *)
SettleOnce ==
  /\ gen.stage = "settle" /\ gen.settle < StubRoundLimit
  /\ LET keys == gen.check \cap Passing
         verdict == Verdict(env, Only(Passing), keys)
         dropped == {k \in keys : verdict[k] # "ok"}
     IN  gen' = [Judge(dropped, verdict) EXCEPT !.settle = @ + 1, !.check = {}, !.alone = TRUE,
                                             !.stage = "frozen"]
  /\ UNCHANGED env

(* The passing stubs are built on their own; when some fail, those of the  *)
(* libraries that miss them are built again.                               *)
Settle ==
  /\ gen.stage = "settle" /\ gen.settle < StubRoundLimit
  /\ LET keys == gen.check \cap Passing
         verdict == Verdict(env, Only(Passing), keys)
         dropped == {k \in keys : verdict[k] # "ok"}
         lost == UNION {Libraries(env, k) : k \in dropped}
         judged == Judge(dropped, verdict)
     IN  gen' = [judged EXCEPT !.settle = @ + 1,
                             !.check = {k \in Passing \ dropped : Libraries(env, k) \cap lost # {}},
                             !.alone = (dropped = {}),
                             !.stage = IF dropped = {} THEN "frozen" ELSE "settle"]
  /\ UNCHANGED env

(* What still passes is frozen, whether or not the last build dropped any. *)
FreezeStubs ==
  /\ gen.stage = "settle" /\ gen.settle = StubRoundLimit
  /\ gen' = [gen EXCEPT !.stage = "frozen"]
  /\ UNCHANGED env

StubStep == SendBatch \/ AnswerBatch \/ VerifyRound \/ TryFallback \/ Settle \/ FreezeStubs

-----------------------------------------------------------------------------
(* A frozen stub fits the call sites that count of every library that names*)
(* it and can be built, whoever wrote it and however late it was repaired  *)
(* (verify.py:164-187, :226-235).                                          *)
FrozenFitsItsCallers ==
  gen.stage = "frozen" =>
    \A k \in Passing : /\ Declarable(env, k)
                       /\ gen.cand[k].misfit \cap Callers(env, k) \subseteq env.broken

(* The frozen set passes on its own as far as the last checks look: when   *)
(* the last one dropped nothing, a frozen stub mentions no name without a  *)
(* frozen stub, unless no library misses both names; then the dropped name *)
(* did not have the stub built again (generate.py:292-308).                *)
FrozenStandsAlone ==
  gen.stage = "frozen" /\ gen.alone =>
    \A k \in Passing : \A j \in gen.cand[k].mentions :
      j \in Passing \/ Libraries(env, j) \cap Libraries(env, k) = {}

=============================================================================
