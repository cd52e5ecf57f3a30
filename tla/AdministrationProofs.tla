------------------------ MODULE AdministrationProofs ------------------------
(***************************************************************************)
(* Theorems about Administration, for every number of administrators,      *)
(* flavors, keys and namespaces, and whatever they ask for.                *)
(***************************************************************************)
EXTENDS Administration, TLAPS

-----------------------------------------------------------------------------
(* The inductive invariants *)

\* A setting that is about to be written agrees with the value of the other one
\* that it was compared with.
SettingFits(c) ==
    /\ c.stage = "flavors" => c.seen = Unset \/ c.seen.name \in Names(c.value)
    /\ c.stage = "default" => Names(c.seen) = {} \/ c.value.name \in Names(c.seen)
SettingsFit == \A a \in Admins : SettingFits(admin[a])

\* The document a set-quota will put back is the queue as it is, or an older one,
\* and what it asks for was compared with the totals of its flavor.
DocumentsFit ==
    \A a \in Admins :
        LET c == admin[a]
        IN  c.stage \in {"totals", "cluster", "replace"} =>
                /\ c.doc.rev <= queue.rev
                /\ c.doc.rev = queue.rev => c.doc = queue
                /\ c.seen <= syncs
                /\ c.stage = "cluster" /\ c.seen = syncs => None(nodes[c.flavor])
                /\ c.stage = "replace" /\ ~c.force /\ c.seen = syncs /\ ~None(nodes[c.flavor])
                      => \A r \in DOMAIN c.ask : Amount(c.ask, r) <= nodes[c.flavor][r]

\* The namespace of an exclusive command is still one of those served.
ExclusiveFit ==
    ~muted => \A a \in Admins : At(a, "exclusive") => admin[a].ns \in enabled

-----------------------------------------------------------------------------
(* Types are kept *)

LEMMA CommandShapes ==
  ASSUME NEW c \in Commands
  PROVE  /\ c.stage = "idle" => c = Idle
         /\ c.stage = "flavors" => c \in FlavorCommands
         /\ c.stage = "default" => c \in DefaultCommands
         /\ c.stage = "key" => c \in KeyCommands
         /\ c.stage \in {"totals", "cluster", "replace"} => c \in QuotaCommands
         /\ c.stage = "exclusive" => c \in ExclusiveCommands
         /\ c.stage = "reset" => c \in ResetCommands
         /\ c.stage = "label" => c \in LabelCommands
         /\ c.stage \in {"idle", "flavors", "default", "key", "totals", "cluster", "replace",
                         "exclusive", "reset", "label"}
  BY DEF Commands, Idle, FlavorCommands, DefaultCommands, KeyCommands, QuotaCommands,
     ExclusiveCommands, ResetCommands, LabelCommands

LEMMA BecomesTyped ==
  ASSUME TypeOK, NEW a \in Admins, NEW c \in Commands, Becomes(a, c)
  PROVE  /\ admin' \in [Admins -> Commands]
         /\ admin'[a] = c
         /\ \A b \in Admins \ {a} : admin'[b] = admin[b]
  BY DEF TypeOK, Becomes

LEMMA EndsTyped ==
  ASSUME TypeOK, NEW a \in Admins, Ends(a)
  PROVE  /\ admin' \in [Admins -> Commands]
         /\ admin'[a] = Idle
         /\ \A b \in Admins \ {a} : admin'[b] = admin[b]
  <1>1. Idle \in Commands
    BY DEF Commands
  <1> QED BY <1>1, BecomesTyped DEF Ends

LEMMA BeginsTyped ==
  ASSUME TypeOK, NEW a, Begins(a)
  PROVE  commands' \in 0..MaxCommands
  BY AdministrationAssumption DEF TypeOK, Begins

LEMMA ParsesAreKinds ==
  ASSUME NEW k \in DOMAIN Keys
  PROVE  Parses[Keys[k].type] # {} /\ Parses[Keys[k].type] \subseteq Kinds
  <1>1. Keys[k].type \in {"integer", "float", "boolean", "string"}
    BY AdministrationAssumption DEF Parses
  <1>2. \A t \in {"integer", "float", "boolean", "string"} :
           Parses[t] # {} /\ Parses[t] \subseteq Kinds
    BY DEF Parses, Kinds
  <1> QED BY <1>1, <1>2

LEMMA InitTyped ==
  ASSUME Init
  PROVE  TypeOK
  <1>1. config \in ConfigMaps
    <2> DEFINE first == [k \in DOMAIN Keys |-> CHOOSE v \in Parses[Keys[k].type] : TRUE]
    <2>1. ASSUME NEW k \in DOMAIN Keys
          PROVE  first[k] \in Parses[Keys[k].type] /\ first[k] \in Kinds
      BY ParsesAreKinds
    <2>2. first \in [DOMAIN Keys -> Kinds]
      BY <2>1
    <2>3. config \in [flavors : Lists, default : Defaults \cup {Unset}, other : {first}]
      BY DEF Init
    <2> HIDE DEF first
    <2>4. /\ config \in [flavors : Lists, default : Defaults \cup {Unset},
                          other : [DOMAIN Keys -> Kinds]]
          /\ config.other = first
      BY <2>2, <2>3
    <2> QED BY <2>1, <2>4 DEF ConfigMaps
  <1>2. queue \in Queues
    <2>1. InitialQuota \in [DOMAIN InitialQuota -> Amounts]
      BY AdministrationAssumption DEF Amounts
    <2>2. queue = [rev |-> 0, covered |-> Resources, quota |-> InitialQuota]
      BY DEF Init
    <2> QED BY <2>1, <2>2 DEF Queues
  <1>3. admin \in [Admins -> Commands]
    BY DEF Init, Commands
  <1>4. weight \in [Namespaces -> Rows] /\ enabled \subseteq Namespaces
    BY DEF Init, Rows
  <1>5. syncs \in 0..MaxSyncs /\ commands \in 0..MaxCommands
    BY AdministrationAssumption DEF Init
  <1> QED BY <1>1, <1>2, <1>3, <1>4, <1>5 DEF Init, TypeOK

LEMMA BeginsCommand ==
  ASSUME TypeOK, NEW a \in Admins, Begins(a)
  PROVE  /\ commands' \in 0..MaxCommands
         /\ admin[a].stage = "idle"
  BY BeginsTyped DEF Begins, Idle

LEMMA ConfigTyped ==
  ASSUME TypeOK, NEW a \in Admins, ConfigCommand(a)
  PROVE  TypeOK'
  <1> USE DEF cluster, shares
  <1>1. config.flavors \in Lists /\ config.default \in Defaults \cup {Unset}
    BY DEF TypeOK, ConfigMaps
  <1>2. CASE SetFlavors(a)
    <2>1. PICK list \in Lists : Becomes(a, [stage |-> "flavors", value |-> list, seen |-> config.default])
      BY <1>2 DEF SetFlavors
    <2>2. [stage |-> "flavors", value |-> list, seen |-> config.default] \in Commands
      BY <1>1 DEF Commands, FlavorCommands
    <2> QED BY <1>2, <2>1, <2>2, BecomesTyped, BeginsTyped DEF SetFlavors, TypeOK
  <1>3. CASE SetDefault(a)
    <2>1. PICK d \in Defaults : Becomes(a, [stage |-> "default", value |-> d, seen |-> config.flavors])
      BY <1>3 DEF SetDefault
    <2>2. [stage |-> "default", value |-> d, seen |-> config.flavors] \in Commands
      BY <1>1 DEF Commands, DefaultCommands
    <2> QED BY <1>3, <2>1, <2>2, BecomesTyped, BeginsTyped DEF SetDefault, TypeOK
  <1>4. CASE SetKey(a)
    <2>1. PICK k \in DOMAIN Keys : \E v \in Parses[Keys[k].type] :
             Becomes(a, [stage |-> "key", key |-> k, value |-> v])
      BY <1>4 DEF SetKey
    <2>2. PICK v \in Parses[Keys[k].type] :
             Becomes(a, [stage |-> "key", key |-> k, value |-> v])
      BY <2>1
    <2>3. [stage |-> "key", key |-> k, value |-> v] \in Commands
      <3>1. v \in Kinds
        BY ParsesAreKinds
      <3> QED BY <1>1, <3>1 DEF Commands, KeyCommands
    <2> QED BY <1>4, <2>2, <2>3, BecomesTyped, BeginsTyped DEF SetKey, TypeOK
  <1>5. CASE PatchConfig(a)
    <2> DEFINE c == admin[a]
    <2>1. c \in Commands
      BY DEF TypeOK
    <2>2. config' \in ConfigMaps
      <3>2. CASE At(a, "flavors") /\ config' = [config EXCEPT !.flavors = c.value]
        <4>1. c.value \in Lists
          BY <2>1, <3>2, CommandShapes DEF At, FlavorCommands
        <4> QED BY <3>2, <4>1 DEF TypeOK, ConfigMaps
      <3>3. CASE At(a, "default") /\ config' = [config EXCEPT !.default = c.value]
        <4>1. c.value \in Defaults
          BY <2>1, <3>3, CommandShapes DEF At, DefaultCommands
        <4> QED BY <3>3, <4>1 DEF TypeOK, ConfigMaps
      <3>4. CASE At(a, "key") /\ config' = [config EXCEPT !.other[c.key] = c.value]
        <4>1. c.key \in DOMAIN Keys /\ c.value \in Kinds /\ c.value \in Parses[Keys[c.key].type]
          BY <2>1, <3>4, CommandShapes DEF At, KeyCommands
        <4>2. /\ config'.flavors = config.flavors /\ config'.default = config.default
              /\ config'.other = [config.other EXCEPT ![c.key] = c.value]
              /\ config' \in [flavors : Lists, default : Defaults \cup {Unset},
                              other : [DOMAIN Keys -> Kinds]]
          BY <3>4, <4>1 DEF TypeOK, ConfigMaps
        <4> QED BY <4>1, <4>2 DEF TypeOK, ConfigMaps
      <3> QED BY <1>5, <3>2, <3>3, <3>4 DEF PatchConfig
    <2> QED BY <1>5, <2>2, EndsTyped DEF PatchConfig, TypeOK
  <1> QED BY <1>2, <1>3, <1>4, <1>5 DEF ConfigCommand

\* The comparison with the totals either ends the command or lets it go on.
LEMMA CheckTyped ==
  ASSUME TypeOK, NEW a \in Admins, admin[a].stage \in {"totals", "cluster"}, NEW totals, Check(a, totals)
  PROVE  admin' \in [Admins -> Commands]
  <1>1. CASE Ends(a)
    BY <1>1, EndsTyped
  <1>2. CASE Becomes(a, [admin[a] EXCEPT !.stage = "replace"])
    <2>1. admin[a] \in QuotaCommands
      BY CommandShapes DEF TypeOK
    <2>2. [admin[a] EXCEPT !.stage = "replace"] \in Commands
      BY <2>1 DEF QuotaCommands, Commands
    <2> QED BY <1>2, <2>2, BecomesTyped
  <1> QED BY <1>1, <1>2 DEF Check

LEMMA WithAskTyped ==
  ASSUME NEW old \in Amounts, NEW ask \in Asks
  PROVE  WithAsk(old, ask) \in Amounts
  <1>1. DOMAIN ask \subseteq Resources /\ \A r \in DOMAIN ask : ask[r] \in Nat
    BY AdministrationAssumption DEF Range
  <1> DEFINE asked == {"gpu"} \cap DOMAIN ask
             kept  == DOMAIN old \ asked
             dom   == IF asked # {} /\ ask["gpu"] > 0 THEN kept \cup asked ELSE kept
  <1>2. dom \in {Resources, Resources \ {"gpu"}}
    BY <1>1 DEF Amounts, Resources
  <1>3. \A r \in dom : (IF r \in DOMAIN ask THEN ask[r] ELSE old[r]) \in Nat
    BY <1>1 DEF Amounts, Resources
  <1>4. WithAsk(old, ask) = [r \in dom |-> IF r \in DOMAIN ask THEN ask[r] ELSE old[r]]
    BY DEF WithAsk
  <1> QED BY <1>2, <1>3, <1>4 DEF Amounts

LEMMA EditedTyped ==
  ASSUME TypeOK, NEW a \in Admins, At(a, "replace")
  PROVE  Edited(a) \in Queues
  <1>1. /\ admin[a].flavor \in DOMAIN InitialQuota /\ admin[a].ask \in Asks
        /\ admin[a].doc \in Queues
    BY CommandShapes DEF TypeOK, At, QuotaCommands
  <1> DEFINE c   == admin[a]
             old == c.doc.quota[c.flavor]
  <1>2. c.doc.quota \in [DOMAIN InitialQuota -> Amounts] /\ c.doc.covered \in {Resources, Resources \ {"gpu"}}
    BY <1>1 DEF Queues
  <1>3. old \in Amounts
    BY <1>1, <1>2
  <1>4. [c.doc.quota EXCEPT ![c.flavor] = WithAsk(old, c.ask)] \in [DOMAIN InitialQuota -> Amounts]
    BY <1>1, <1>2, <1>3, WithAskTyped
  <1>5. Covered(old, c.doc.covered, c.ask) \in {Resources, Resources \ {"gpu"}}
    BY <1>2 DEF Covered, Resources
  <1>6. queue.rev + 1 \in Nat
    BY DEF TypeOK, Queues
  <1> QED BY <1>4, <1>5, <1>6 DEF Edited, Queues

LEMMA ClusterTyped ==
  ASSUME TypeOK, NEW a \in Admins, ClusterCommand(a)
  PROVE  TypeOK'
  <1> USE DEF cluster, shares
  <1>1. CASE SetQuota(a)
    <2>1. PICK f \in DOMAIN queue.quota, ask \in Asks, force \in BOOLEAN :
             Becomes(a, [stage |-> "totals", flavor |-> f, ask |-> ask, force |-> force,
                         doc |-> queue, seen |-> syncs])
      BY <1>1 DEF SetQuota
    <2>2. [stage |-> "totals", flavor |-> f, ask |-> ask, force |-> force,
           doc |-> queue, seen |-> syncs] \in Commands
      BY DEF TypeOK, Queues, QuotaCommands, Commands
    <2> QED BY <1>1, <2>1, <2>2, BecomesTyped, BeginsTyped DEF SetQuota, TypeOK
  <1>2. CASE FlavorTotals(a)
    <2>1. CASE Becomes(a, [admin[a] EXCEPT !.stage = "cluster"])
      <3>1. admin[a] \in QuotaCommands
        BY <1>2, CommandShapes DEF FlavorTotals, At, TypeOK
      <3>2. [admin[a] EXCEPT !.stage = "cluster"] \in Commands
        BY <3>1 DEF QuotaCommands, Commands
      <3> QED BY <1>2, <2>1, <3>2, BecomesTyped DEF FlavorTotals, TypeOK
    <2>2. CASE Check(a, nodes[admin[a].flavor])
      BY <1>2, <2>2, CheckTyped DEF FlavorTotals, At, TypeOK
    <2> QED BY <1>2, <2>1, <2>2 DEF FlavorTotals
  <1>3. CASE ClusterTotals(a)
    <2>1. \E totals : Check(a, totals)
      BY <1>3, Zenon DEF ClusterTotals
    <2> QED BY <1>3, <2>1, CheckTyped DEF ClusterTotals, At, TypeOK
  <1>4. CASE ReplaceQueue(a)
    BY <1>4, EditedTyped, EndsTyped DEF ReplaceQueue, TypeOK
  <1> QED BY <1>1, <1>2, <1>3, <1>4 DEF ClusterCommand

LEMMA WeightTyped ==
  ASSUME TypeOK, NEW a \in Admins, WeightCommand(a)
  PROVE  TypeOK'
  <1> USE DEF cluster, shares
  <1>1. CASE SetWeight(a) \/ ResetWeight(a)
    BY <1>1, BeginsTyped DEF SetWeight, ResetWeight, TypeOK, Rows, NoRow
  <1>2. CASE ResetAllWeights(a)
    BY <1>2, BeginsTyped, BecomesTyped DEF ResetAllWeights, TypeOK, Commands, ResetCommands
  <1>3. CASE DeleteWeights(a)
    BY <1>3, EndsTyped DEF DeleteWeights, TypeOK, Rows
  <1>4. CASE Exclusive(a)
    <2>1. PICK n \in enabled :
             Becomes(a, [stage |-> "exclusive", ns |-> n, todo |-> enabled \ {n}])
      BY <1>4 DEF Exclusive, UserNamespaces
    <2>2. [stage |-> "exclusive", ns |-> n, todo |-> enabled \ {n}] \in Commands
      BY DEF TypeOK, ExclusiveCommands, Commands
    <2> QED BY <1>4, <2>1, <2>2, BecomesTyped, BeginsTyped DEF Exclusive, TypeOK
  <1>5. CASE MuteNext(a)
    <2>1. admin[a] \in ExclusiveCommands
      BY <1>5, CommandShapes DEF MuteNext, At, TypeOK
    <2>2. PICK n \in admin[a].todo :
             /\ weight' = [weight EXCEPT ![n] = 0]
             /\ Becomes(a, [admin[a] EXCEPT !.todo = @ \ {n}])
      BY <1>5 DEF MuteNext
    <2>3. [admin[a] EXCEPT !.todo = @ \ {n}] \in Commands
      BY <2>1 DEF ExclusiveCommands, Commands
    <2>4. weight' \in [Namespaces -> Rows]
      BY <2>2 DEF TypeOK, Rows
    <2> QED BY <1>5, <2>2, <2>3, <2>4, BecomesTyped DEF MuteNext, TypeOK
  <1>6. CASE Unmute(a)
    <2>1. weight' \in [Namespaces -> Rows]
      BY <1>6 DEF Unmute, TypeOK, Rows
    <2> QED BY <1>6, <2>1, EndsTyped DEF Unmute, TypeOK
  <1> QED BY <1>1, <1>2, <1>3, <1>4, <1>5, <1>6 DEF WeightCommand

LEMMA UserTyped ==
  ASSUME TypeOK, NEW a \in Admins, UserCommand(a)
  PROVE  TypeOK'
  <1> USE DEF cluster, shares
  <1>1. CASE SetLabels(a)
    <2>1. PICK S \in SUBSET Namespaces, on \in BOOLEAN :
             Becomes(a, [stage |-> "label", todo |-> S, on |-> on])
      BY <1>1 DEF SetLabels
    <2>2. [stage |-> "label", todo |-> S, on |-> on] \in Commands
      BY DEF LabelCommands, Commands
    <2> QED BY <1>1, <2>1, <2>2, BecomesTyped, BeginsTyped DEF SetLabels, TypeOK
  <1>2. CASE PatchLabel(a)
    <2>1. admin[a] \in LabelCommands
      BY <1>2, CommandShapes DEF PatchLabel, At, TypeOK
    <2>2. PICK n \in admin[a].todo :
             /\ enabled' = IF admin[a].on THEN enabled \cup {n} ELSE enabled \ {n}
             /\ \/ Ends(a)
                \/ Becomes(a, [admin[a] EXCEPT !.todo = admin[a].todo \ {n}])
      BY <1>2 DEF PatchLabel
    <2>3. [admin[a] EXCEPT !.todo = admin[a].todo \ {n}] \in Commands
      BY <2>1 DEF LabelCommands, Commands
    <2>4. admin' \in [Admins -> Commands]
      BY <2>2, <2>3, BecomesTyped, EndsTyped
    <2>5. enabled' \subseteq Namespaces
      BY <2>1, <2>2 DEF LabelCommands, TypeOK
    <2> QED BY <1>2, <2>4, <2>5 DEF PatchLabel, TypeOK
  <1> QED BY <1>1, <1>2 DEF UserCommand

LEMMA StepTyped ==
  ASSUME TypeOK, [Next]_vars
  PROVE  TypeOK'
  <1> USE DEF cluster, shares
  <1>1. ASSUME NEW a \in Admins, GiveUp(a)
        PROVE  TypeOK'
    BY <1>1, EndsTyped DEF GiveUp, TypeOK
  <1>2. CASE SyncNodes
    BY <1>2, AdministrationAssumption DEF SyncNodes, TypeOK
  <1>3. CASE UNCHANGED vars
    BY <1>3 DEF vars, TypeOK
  <1> QED BY <1>1, <1>2, <1>3, ConfigTyped, ClusterTyped, WeightTyped, UserTyped DEF Next, Command

\* Every command keeps the kinds of the values it writes, however the calls of
\* several administrators interleave: no setting gets a value its type does not
\* take, and no ClusterQueue a quota for a resource it may not have.
THEOREM CommandsAreTyped == Spec => []TypeOK
  BY InitTyped, StepTyped, PTL DEF Spec

-----------------------------------------------------------------------------
(* A command of one kind stays of that kind until it ends, and leaves the  *)
(* other commands alone.                                                   *)

StaysIn(a, stages) ==
    /\ admin[a].stage \in stages \cup {"idle"}
    /\ admin'[a].stage \in stages \cup {"idle"}
    /\ \A b \in Admins \ {a} : admin'[b] = admin[b]

LEMMA BecomesStays ==
  ASSUME TypeOK, NEW a \in Admins, NEW stages, admin[a].stage \in stages \cup {"idle"}
  PROVE  /\ \A c : Becomes(a, c) /\ c.stage \in stages => StaysIn(a, stages)
         /\ \A s \in stages : Becomes(a, [admin[a] EXCEPT !.stage = s])
                /\ "stage" \in DOMAIN admin[a] => StaysIn(a, stages)
         /\ Ends(a) => StaysIn(a, stages)
         /\ UNCHANGED admin => StaysIn(a, stages)
  BY DEF TypeOK, Becomes, Ends, Idle, StaysIn

LEMMA BeginsIdle ==
  ASSUME NEW a, Begins(a)
  PROVE  admin[a].stage = "idle"
  BY DEF Begins, Idle

LEMMA ConfigStays ==
  ASSUME TypeOK, NEW a \in Admins, ConfigCommand(a)
  PROVE  StaysIn(a, {"flavors", "default", "key"})
  <1>1. CASE SetFlavors(a)
    BY <1>1, BeginsIdle, BecomesStays DEF SetFlavors
  <1>2. CASE SetDefault(a)
    BY <1>2, BeginsIdle, BecomesStays DEF SetDefault
  <1>3. CASE SetKey(a)
    BY <1>3, BeginsIdle, BecomesStays DEF SetKey
  <1>4. CASE PatchConfig(a)
    BY <1>4, BecomesStays DEF PatchConfig, At
  <1> QED BY <1>1, <1>2, <1>3, <1>4 DEF ConfigCommand

LEMMA CheckStays ==
  ASSUME TypeOK, NEW a \in Admins, admin[a].stage \in {"totals", "cluster"}, NEW totals, Check(a, totals)
  PROVE  StaysIn(a, {"totals", "cluster", "replace"})
  <1>1. admin[a] \in QuotaCommands
    BY CommandShapes DEF TypeOK
  <1>2. "stage" \in DOMAIN admin[a]
    BY <1>1 DEF QuotaCommands
  <1> QED BY <1>2, BecomesStays DEF Check

LEMMA ClusterStays ==
  ASSUME TypeOK, NEW a \in Admins, ClusterCommand(a)
  PROVE  StaysIn(a, {"totals", "cluster", "replace"})
  <1>1. CASE SetQuota(a)
    BY <1>1, BeginsIdle, BecomesStays DEF SetQuota
  <1>2. CASE FlavorTotals(a)
    <2>1. admin[a] \in QuotaCommands
      BY <1>2, CommandShapes DEF FlavorTotals, At, TypeOK
    <2>2. "stage" \in DOMAIN admin[a]
      BY <2>1 DEF QuotaCommands
    <2> QED BY <1>2, <2>2, BecomesStays, CheckStays DEF FlavorTotals, At
  <1>3. CASE ClusterTotals(a)
    <2>1. \E totals : Check(a, totals)
      BY <1>3, Zenon DEF ClusterTotals
    <2> QED BY <1>3, <2>1, CheckStays DEF ClusterTotals, At
  <1>4. CASE ReplaceQueue(a)
    BY <1>4, BecomesStays DEF ReplaceQueue, At
  <1> QED BY <1>1, <1>2, <1>3, <1>4 DEF ClusterCommand

LEMMA WeightStays ==
  ASSUME TypeOK, NEW a \in Admins,
         SetWeight(a) \/ ResetWeight(a) \/ ResetAllWeights(a) \/ DeleteWeights(a)
  PROVE  StaysIn(a, {"reset"})
  <1>1. CASE SetWeight(a) \/ ResetWeight(a)
    BY <1>1, BeginsIdle, BecomesStays DEF SetWeight, ResetWeight
  <1>2. CASE ResetAllWeights(a)
    BY <1>2, BeginsIdle, BecomesStays DEF ResetAllWeights
  <1>3. CASE DeleteWeights(a)
    BY <1>3, BecomesStays DEF DeleteWeights, At
  <1> QED BY <1>1, <1>2, <1>3

LEMMA ExclusiveStays ==
  ASSUME TypeOK, NEW a \in Admins, Exclusive(a) \/ MuteNext(a) \/ Unmute(a)
  PROVE  StaysIn(a, {"exclusive"})
  <1>1. CASE Exclusive(a)
    BY <1>1, BeginsIdle, BecomesStays DEF Exclusive
  <1>2. CASE MuteNext(a)
    <2>1. admin[a] \in ExclusiveCommands
      BY <1>2, CommandShapes DEF MuteNext, At, TypeOK
    <2>2. \A S : [admin[a] EXCEPT !.todo = S].stage = "exclusive"
      BY <2>1 DEF ExclusiveCommands
    <2> QED BY <1>2, <2>2, BecomesStays DEF MuteNext, At
  <1>3. CASE Unmute(a)
    BY <1>3, BecomesStays DEF Unmute, At
  <1> QED BY <1>1, <1>2, <1>3

LEMMA UserStays ==
  ASSUME TypeOK, NEW a \in Admins, UserCommand(a)
  PROVE  StaysIn(a, {"label"})
  <1>1. CASE SetLabels(a)
    BY <1>1, BeginsIdle, BecomesStays DEF SetLabels
  <1>2. CASE PatchLabel(a)
    <2>1. admin[a] \in LabelCommands
      BY <1>2, CommandShapes DEF PatchLabel, At, TypeOK
    <2>2. \A S : [admin[a] EXCEPT !.todo = S].stage = "label"
      BY <2>1 DEF LabelCommands
    <2> QED BY <1>2, <2>2, BecomesStays DEF PatchLabel, At
  <1> QED BY <1>1, <1>2 DEF UserCommand

-----------------------------------------------------------------------------
(* Exclusive use of the cluster *)

ServedInv == TypeOK /\ ExclusiveFit /\ SomeoneIsServed

LEMMA StepKeepsServed ==
  ASSUME ServedInv, [Next]_vars
  PROVE  ServedInv'
  <1> USE DEF ServedInv
  <1>1. TypeOK'
    BY StepTyped
  <1> DEFINE Fits == ExclusiveFit' /\ SomeoneIsServed'
  <1>2. ASSUME UNCHANGED <<weight, enabled, admin, muted>>
        PROVE  Fits
    BY <1>2 DEF ExclusiveFit, SomeoneIsServed, At
  <1>3. ASSUME NEW a \in Admins, ~At(a, "exclusive"), ~At(a, "exclusive")',
               \A b \in Admins \ {a} : admin'[b] = admin[b],
               muted => muted',
               ~muted' => enabled \subseteq enabled' /\ \A n \in Namespaces : weight'[n] = 0 => weight[n] = 0
        PROVE  Fits
    <2>1. \A b \in Admins : At(b, "exclusive")' <=> At(b, "exclusive")
      BY <1>3 DEF At
    <2>2. ExclusiveFit'
      BY <1>3, <2>1 DEF ExclusiveFit, At
    <2>3. SomeoneIsServed'
      BY <1>3, <2>1 DEF SomeoneIsServed, TypeOK
    <2> QED BY <2>2, <2>3
  <1>4. ASSUME NEW a \in Admins, ConfigCommand(a) \/ ClusterCommand(a) \/ SetLabels(a) \/ ResetAllWeights(a)
        PROVE  Fits
    <2>1. UNCHANGED shares
      BY <1>4 DEF ConfigCommand, SetFlavors, SetDefault, SetKey, PatchConfig, ClusterCommand, SetQuota,
         FlavorTotals, ClusterTotals, ReplaceQueue, SetLabels, ResetAllWeights
    <2>2. StaysIn(a, {"flavors", "default", "key", "totals", "cluster", "replace", "label", "reset"})
      BY <1>4, ConfigStays, ClusterStays, UserStays, WeightStays DEF UserCommand, StaysIn
    <2> QED BY <1>3, <2>1, <2>2 DEF shares, StaysIn, At
  <1>5. ASSUME NEW a \in Admins, SetWeight(a) \/ ResetWeight(a) \/ DeleteWeights(a) \/ PatchLabel(a)
        PROVE  Fits
    <2>1. muted => muted'
      BY <1>5 DEF SetWeight, ResetWeight, DeleteWeights, PatchLabel
    <2>2. \A n \in Namespaces : ~muted' /\ weight'[n] = 0 => weight[n] = 0
      <3>1. CASE SetWeight(a)
        BY <3>1 DEF SetWeight, TypeOK
      <3>2. CASE ResetWeight(a) \/ DeleteWeights(a)
        BY <3>2 DEF ResetWeight, DeleteWeights, NoRow, TypeOK
      <3>3. CASE PatchLabel(a)
        BY <3>3 DEF PatchLabel
      <3> QED BY <1>5, <3>1, <3>2, <3>3
    <2>3. ~muted' => enabled \subseteq enabled'
      BY <1>5 DEF SetWeight, ResetWeight, DeleteWeights, PatchLabel
    <2>4. /\ ~At(a, "exclusive") /\ ~At(a, "exclusive")'
          /\ \A b \in Admins \ {a} : admin'[b] = admin[b]
      BY <1>5, UserStays, WeightStays DEF UserCommand, StaysIn, At
    <2> QED BY <1>3, <2>1, <2>2, <2>3, <2>4
  <1>6. ASSUME NEW a \in Admins, Exclusive(a)
        PROVE  Fits
    <2>1. PICK n \in enabled : Becomes(a, [stage |-> "exclusive", ns |-> n, todo |-> enabled \ {n}])
      BY <1>6 DEF Exclusive, UserNamespaces
    <2>2. /\ admin'[a].stage = "exclusive" /\ admin'[a].ns = n
          /\ \A b \in Admins \ {a} : admin'[b] = admin[b]
      BY <2>1 DEF Becomes, TypeOK
    <2>3. UNCHANGED <<muted, enabled>>
      BY <1>6 DEF Exclusive, shares
    <2> QED BY <2>1, <2>2, <2>3 DEF ExclusiveFit, SomeoneIsServed, At
  <1>7. ASSUME NEW a \in Admins, MuteNext(a)
        PROVE  Fits
    <2>1. admin[a] \in ExclusiveCommands
      BY <1>7, CommandShapes DEF MuteNext, At, TypeOK
    <2>2. PICK n \in admin[a].todo : Becomes(a, [admin[a] EXCEPT !.todo = @ \ {n}])
      BY <1>7 DEF MuteNext
    <2>3. /\ admin'[a].stage = "exclusive" /\ admin'[a].ns = admin[a].ns
          /\ \A b \in Admins \ {a} : admin'[b] = admin[b]
      BY <2>1, <2>2 DEF Becomes, TypeOK, ExclusiveCommands
    <2>4. UNCHANGED <<muted, enabled>> /\ At(a, "exclusive")
      BY <1>7 DEF MuteNext
    <2> QED BY <2>3, <2>4 DEF ExclusiveFit, SomeoneIsServed, At
  <1>8. ASSUME NEW a \in Admins, Unmute(a)
        PROVE  Fits
    <2>1. /\ admin'[a] = Idle
          /\ \A b \in Admins \ {a} : admin'[b] = admin[b]
      BY <1>8, EndsTyped DEF Unmute
    <2>2. UNCHANGED <<muted, enabled>> /\ At(a, "exclusive")
      BY <1>8 DEF Unmute
    <2>3. ExclusiveFit'
      BY <2>1, <2>2 DEF ExclusiveFit, At, Idle
    <2>4. ~muted => admin[a].ns \in enabled
      BY <2>2 DEF ExclusiveFit
    <2>5. weight'[admin[a].ns] = 1
      <3>1. admin[a].ns \in Namespaces
        BY <2>2, CommandShapes DEF At, TypeOK, ExclusiveCommands
      <3> QED BY <1>8, <3>1 DEF Unmute, TypeOK, NoRow
    <2>6. SomeoneIsServed'
      BY <2>2, <2>4, <2>5 DEF SomeoneIsServed
    <2> QED BY <2>3, <2>6
  <1>9. ASSUME NEW a \in Admins, GiveUp(a)
        PROVE  Fits
    <2>1. /\ admin'[a] = Idle
          /\ \A b \in Admins \ {a} : admin'[b] = admin[b]
      BY <1>9, EndsTyped DEF GiveUp
    <2>2. CASE At(a, "exclusive")
      BY <1>9, <2>2 DEF GiveUp, ExclusiveFit, SomeoneIsServed
    <2>3. CASE ~At(a, "exclusive")
      <3>1. UNCHANGED <<weight, enabled, muted>>
        BY <1>9, <2>3 DEF GiveUp, TypeOK
      <3> QED BY <1>3, <2>1, <2>3, <3>1 DEF At, Idle
    <2> QED BY <2>2, <2>3
  <1> QED BY <1>1, <1>2, <1>4, <1>5, <1>6, <1>7, <1>8, <1>9
          DEF Next, vars, SyncNodes, shares, Command, WeightCommand, UserCommand

\* Exclusive commands that overlap, one another or with any other command, do
\* not leave the cluster to nobody: the last to end gives its namespace back the
\* weight that another one took.
THEOREM ClusterServesSomeone == Spec => []SomeoneIsServed
  <1>1. Init => ServedInv
    <2>1. ASSUME Init
          PROVE  ExclusiveFit /\ SomeoneIsServed
      <3>1. PICK n \in enabled : n \in Namespaces
        <4>1. enabled \in (SUBSET Namespaces) \ {{}}
          BY <2>1 DEF Init
        <4>2. enabled # {}
          BY <4>1
        <4> QED BY <4>1, <4>2
      <3>2. weight[n] # 0
        BY <2>1, <3>1 DEF Init, NoRow
      <3>3. \A a \in Admins : ~At(a, "exclusive")
        BY <2>1 DEF Init, At, Idle
      <3> QED BY <3>1, <3>2, <3>3 DEF ExclusiveFit, SomeoneIsServed
    <2> QED BY <2>1, InitTyped DEF ServedInv
  <1>2. ServedInv /\ [Next]_vars => ServedInv'
    BY StepKeepsServed
  <1>3. ServedInv => SomeoneIsServed
    BY DEF ServedInv
  <1> QED BY <1>1, <1>2, <1>3, PTL DEF Spec

-----------------------------------------------------------------------------
(* The two flavor settings *)

ConfigInv == TypeOK /\ SettingsFit

\* Commands that are not about settings.
LEMMA OthersLeaveSettings ==
  ASSUME TypeOK, SettingsFit, NEW a \in Admins,
         ClusterCommand(a) \/ WeightCommand(a) \/ UserCommand(a) \/ GiveUp(a)
  PROVE  UNCHANGED config /\ SettingsFit'
  <1>1. UNCHANGED config
    BY DEF ClusterCommand, SetQuota, FlavorTotals, ClusterTotals, ReplaceQueue, WeightCommand,
       SetWeight, ResetWeight, ResetAllWeights, DeleteWeights, Exclusive, MuteNext, Unmute,
       UserCommand, SetLabels, PatchLabel, GiveUp
  <1>2. /\ admin'[a].stage \notin {"flavors", "default"}
        /\ \A b \in Admins \ {a} : admin'[b] = admin[b]
    <2>1. CASE ClusterCommand(a)
      BY <2>1, ClusterStays DEF StaysIn
    <2>2. CASE WeightCommand(a)
      BY <2>2, WeightStays, ExclusiveStays DEF StaysIn, WeightCommand
    <2>3. CASE UserCommand(a)
      BY <2>3, UserStays DEF StaysIn
    <2>4. CASE GiveUp(a)
      BY <2>4, EndsTyped DEF GiveUp, Idle
    <2> QED BY <2>1, <2>2, <2>3, <2>4
  <1> QED BY <1>1, <1>2 DEF SettingsFit, SettingFits

LEMMA StepKeepsConfig ==
  ASSUME ConfigInv, [Next]_vars
  PROVE  ConfigInv'
  <1> USE DEF ConfigInv
  <1>1. TypeOK'
    BY StepTyped
  <1>2. ASSUME UNCHANGED admin
        PROVE  SettingsFit'
    BY <1>2 DEF SettingsFit, SettingFits
  <1>3. ASSUME NEW a \in Admins, NEW c, Becomes(a, c), SettingFits(c)
        PROVE  SettingsFit'
    <2>1. admin'[a] = c /\ \A b \in Admins \ {a} : admin'[b] = admin[b]
      BY <1>3 DEF Becomes, TypeOK
    <2> QED BY <1>3, <2>1 DEF SettingsFit, SettingFits
  <1>4. ASSUME NEW a \in Admins, SetFlavors(a)
        PROVE  SettingsFit'
    BY <1>3, <1>4 DEF SetFlavors, SettingFits
  <1>5. ASSUME NEW a \in Admins, SetDefault(a)
        PROVE  SettingsFit'
    BY <1>3, <1>5 DEF SetDefault, SettingFits
  <1>6. ASSUME NEW a \in Admins, SetKey(a)
        PROVE  SettingsFit'
    BY <1>3, <1>6 DEF SetKey, SettingFits
  <1>7. ASSUME NEW a \in Admins, PatchConfig(a)
        PROVE  SettingsFit'
    BY <1>3, <1>7 DEF PatchConfig, Ends, Idle, SettingFits
  <1>8. ASSUME SyncNodes
        PROVE  SettingsFit'
    BY <1>2, <1>8 DEF SyncNodes
  <1>9. ASSUME UNCHANGED vars
        PROVE  SettingsFit'
    BY <1>2, <1>9 DEF vars
  <1>10. SettingsFit'
    BY <1>4, <1>5, <1>6, <1>7, <1>8, <1>9, OthersLeaveSettings DEF Next, Command, ConfigCommand
  <1> QED BY <1>1, <1>10

\* A step that leaves the settings at odds though it changes one of them is the
\* patch of a command that compared with something else.
LEMMA StepAgrees ==
  ASSUME ConfigInv, [Next]_vars, AtOdds'
  PROVE  \/ config'.flavors = config.flavors /\ config'.default = config.default
         \/ \E a \in Admins : Outdated(a) /\ admin'[a] = Idle
  <1> USE DEF ConfigInv
  <1>1. ASSUME NEW a \in Admins, PatchConfig(a), ~Outdated(a)
        PROVE  config'.flavors = config.flavors /\ config'.default = config.default
    <2> DEFINE c == admin[a]
    <2>1. SettingFits(c)
      BY DEF SettingsFit
    <2>2. CASE At(a, "flavors") /\ config' = [config EXCEPT !.flavors = c.value]
      <3>1. config'.flavors = c.value /\ config'.default = config.default
        BY <2>2 DEF TypeOK, ConfigMaps
      <3>2. ~AtOdds'
        BY <1>1, <2>1, <2>2, <3>1 DEF At, Outdated, SettingFits, AtOdds
      <3> QED BY <3>2
    <2>3. CASE At(a, "default") /\ config' = [config EXCEPT !.default = c.value]
      <3>1. config'.flavors = config.flavors /\ config'.default = c.value
        BY <2>3 DEF TypeOK, ConfigMaps
      <3>2. ~AtOdds'
        BY <1>1, <2>1, <2>3, <3>1 DEF At, Outdated, SettingFits, AtOdds
      <3> QED BY <3>2
    <2>4. CASE At(a, "key") /\ config' = [config EXCEPT !.other[c.key] = c.value]
      BY <2>4 DEF TypeOK, ConfigMaps
    <2> QED BY <1>1, <2>2, <2>3, <2>4 DEF PatchConfig
  <1>2. ASSUME NEW a \in Admins, PatchConfig(a)
        PROVE  admin'[a] = Idle
    BY <1>2, EndsTyped DEF PatchConfig
  <1>3. ASSUME NEW a \in Admins, SetFlavors(a) \/ SetDefault(a) \/ SetKey(a)
        PROVE  UNCHANGED config
    BY <1>3 DEF SetFlavors, SetDefault, SetKey
  <1>4. CASE SyncNodes
    BY <1>4 DEF SyncNodes
  <1>5. CASE UNCHANGED vars
    BY <1>5 DEF vars
  <1> QED BY <1>1, <1>2, <1>3, <1>4, <1>5, OthersLeaveSettings DEF Next, Command, ConfigCommand

\* However the settings of several administrators interleave, whichever key is
\* set when, and whatever the settings are at first: DEFAULT_FLAVOR comes to name
\* no flavor only through a command that compared with a value another one has
\* replaced since.
THEOREM SettingsAgree == Spec => ConfigAgrees
  <1>1. Init => ConfigInv
    <2>1. Init => SettingsFit
      BY DEF Init, SettingsFit, SettingFits, Idle
    <2> QED BY <2>1, InitTyped DEF ConfigInv
  <1>2. ConfigInv /\ [Next]_vars => ConfigInv'
    BY StepKeepsConfig
  <1>3. ConfigInv /\ [Next]_vars
          => [AtOdds' => \/ config'.flavors = config.flavors /\ config'.default = config.default
                         \/ \E a \in Admins : Outdated(a) /\ admin'[a] = Idle]_vars
    BY StepAgrees
  <1> QED BY <1>1, <1>2, <1>3, PTL DEF Spec, ConfigAgrees

-----------------------------------------------------------------------------
(* Quotas *)

QuotaInv == TypeOK /\ DocumentsFit

\* What the invariant says of one command.
DocumentFits(c) ==
    c.stage \in {"totals", "cluster", "replace"} =>
        /\ c.doc.rev <= queue.rev
        /\ c.doc.rev = queue.rev => c.doc = queue
        /\ c.seen <= syncs
        /\ c.stage = "cluster" /\ c.seen = syncs => None(nodes[c.flavor])
        /\ c.stage = "replace" /\ ~c.force /\ c.seen = syncs /\ ~None(nodes[c.flavor])
              => \A r \in DOMAIN c.ask : Amount(c.ask, r) <= nodes[c.flavor][r]

LEMMA CheckFits ==
  ASSUME QuotaInv, NEW a \in Admins, admin[a].stage \in {"totals", "cluster"},
         NEW totals, Check(a, totals), UNCHANGED <<queue, nodes, syncs>>,
         \/ totals = nodes[admin[a].flavor]
         \/ admin[a].seen = syncs => None(nodes[admin[a].flavor])
  PROVE  DocumentFits(admin[a])'
  <1> DEFINE c == admin[a]
  <1>1. c \in QuotaCommands
    BY CommandShapes DEF QuotaInv, TypeOK
  <1>2. CASE Ends(a)
    BY <1>2, EndsTyped DEF QuotaInv, DocumentFits, Idle
  <1>3. CASE /\ Becomes(a, [c EXCEPT !.stage = "replace"])
             /\ ~(\E r \in DOMAIN c.ask : Amount(c.ask, r) > totals[r]) \/ c.force
    <2>1. admin'[a] = [c EXCEPT !.stage = "replace"]
      BY <1>3 DEF Becomes, QuotaInv, TypeOK
    <2>2. DocumentFits(c)
      BY DEF QuotaInv, DocumentsFit, DocumentFits
    <2>3. ASSUME ~c.force, totals = nodes[c.flavor], NEW r \in DOMAIN c.ask
          PROVE  Amount(c.ask, r) <= nodes[c.flavor][r]
      <3>1. c.ask \in Asks /\ c.flavor \in Flavors
        BY <1>1, AdministrationAssumption DEF QuotaCommands
      <3>2. c.ask[r] \in Nat /\ r \in Resources
        BY <3>1, AdministrationAssumption DEF Range
      <3>3. nodes[c.flavor][r] \in Nat
        BY <3>1, <3>2, AdministrationAssumption DEF QuotaInv, TypeOK
      <3>4. Amount(c.ask, r) \in Int
        BY <3>2, AdministrationAssumption DEF Amount, Signed
      <3>5. ~(Amount(c.ask, r) > totals[r])
        BY <1>3, <2>3
      <3> QED BY <2>3, <3>3, <3>4, <3>5
    <2> QED BY <1>1, <2>1, <2>2, <2>3 DEF DocumentFits, QuotaCommands
  <1> QED BY <1>2, <1>3 DEF Check

LEMMA StepKeepsQuotas ==
  ASSUME QuotaInv, [Next]_vars
  PROVE  QuotaInv'
  <1>1. TypeOK'
    BY StepTyped DEF QuotaInv
  <1>2. ASSUME NEW a \in Admins
        PROVE  DocumentFits(admin[a])
    BY DEF QuotaInv, DocumentsFit, DocumentFits
  <1>3. syncs \in Nat /\ queue.rev \in Nat
    BY AdministrationAssumption DEF QuotaInv, TypeOK, Queues
  <1> DEFINE Fits == \A b \in Admins : DocumentFits(admin[b])'
  <1>4. ASSUME UNCHANGED <<cluster, admin>>
        PROVE  Fits
    BY <1>2, <1>4 DEF cluster, DocumentFits
  <1>5. ASSUME NEW a \in Admins, NEW stages, UNCHANGED cluster, StaysIn(a, stages),
               stages \cap {"totals", "cluster", "replace"} = {}
        PROVE  Fits
    BY <1>2, <1>5 DEF StaysIn, cluster, DocumentFits
  <1>6. ASSUME NEW a \in Admins, ConfigCommand(a)
        PROVE  Fits
    <2>1. UNCHANGED cluster
      BY <1>6 DEF ConfigCommand, SetFlavors, SetDefault, SetKey, PatchConfig
    <2> QED BY <1>5, <1>6, <2>1, ConfigStays DEF QuotaInv
  <1>7. ASSUME NEW a \in Admins, WeightCommand(a)
        PROVE  Fits
    <2>1. UNCHANGED cluster
      BY <1>7 DEF WeightCommand, SetWeight, ResetWeight, ResetAllWeights, DeleteWeights, Exclusive,
         MuteNext, Unmute
    <2>2. StaysIn(a, {"reset"}) \/ StaysIn(a, {"exclusive"})
      BY <1>7, WeightStays, ExclusiveStays DEF WeightCommand, QuotaInv
    <2> QED BY <1>5, <2>1, <2>2
  <1>8. ASSUME NEW a \in Admins, UserCommand(a)
        PROVE  Fits
    <2>1. UNCHANGED cluster
      BY <1>8 DEF UserCommand, SetLabels, PatchLabel
    <2> QED BY <1>5, <1>8, <2>1, UserStays DEF QuotaInv
  <1>9. ASSUME NEW a \in Admins, GiveUp(a)
        PROVE  Fits
    <2>1. admin'[a] = Idle /\ \A b \in Admins \ {a} : admin'[b] = admin[b]
      BY <1>9, EndsTyped DEF GiveUp, QuotaInv
    <2> QED BY <1>2, <1>9, <2>1 DEF GiveUp, cluster, DocumentFits, Idle
  <1>10. ASSUME NEW a \in Admins, SetQuota(a)
         PROVE  Fits
    <2>1. PICK f, ask, force :
             Becomes(a, [stage |-> "totals", flavor |-> f, ask |-> ask, force |-> force,
                         doc |-> queue, seen |-> syncs])
      BY <1>10 DEF SetQuota
    <2>2. /\ admin'[a].stage = "totals" /\ admin'[a].doc = queue /\ admin'[a].seen = syncs
          /\ \A b \in Admins \ {a} : admin'[b] = admin[b]
      BY <2>1 DEF Becomes, QuotaInv, TypeOK
    <2> QED BY <1>2, <1>3, <1>10, <2>2 DEF SetQuota, cluster, DocumentFits
  <1>11. ASSUME NEW a \in Admins, FlavorTotals(a)
         PROVE  Fits
    <2>1. UNCHANGED cluster /\ At(a, "totals")
      BY <1>11 DEF FlavorTotals
    <2>2. \A b \in Admins \ {a} : admin'[b] = admin[b]
      BY <1>11, ClusterStays DEF ClusterCommand, StaysIn, QuotaInv
    <2>3. DocumentFits(admin[a])'
      <3>1. CASE None(nodes[admin[a].flavor]) /\ Becomes(a, [admin[a] EXCEPT !.stage = "cluster"])
        <4>1. admin[a] \in QuotaCommands
          BY <2>1, CommandShapes DEF At, QuotaInv, TypeOK
        <4>2. admin'[a] = [admin[a] EXCEPT !.stage = "cluster"]
          BY <3>1 DEF Becomes, QuotaInv, TypeOK
        <4> QED BY <1>2, <2>1, <3>1, <4>1, <4>2 DEF At, cluster, DocumentFits, QuotaCommands
      <3>2. CASE Check(a, nodes[admin[a].flavor])
        BY <2>1, <3>2, CheckFits DEF At, cluster
      <3> QED BY <1>11, <3>1, <3>2 DEF FlavorTotals
    <2> QED BY <1>2, <2>1, <2>2, <2>3 DEF cluster, DocumentFits
  <1>12. ASSUME NEW a \in Admins, ClusterTotals(a)
         PROVE  Fits
    <2>1. UNCHANGED cluster /\ At(a, "cluster")
      BY <1>12 DEF ClusterTotals
    <2>2. \A b \in Admins \ {a} : admin'[b] = admin[b]
      BY <1>12, ClusterStays DEF ClusterCommand, StaysIn, QuotaInv
    <2>3. DocumentFits(admin[a])'
      <3>1. PICK totals : Check(a, totals)
        BY <1>12, Zenon DEF ClusterTotals
      <3>2. admin[a].seen = syncs => None(nodes[admin[a].flavor])
        BY <1>2, <2>1 DEF At, DocumentFits
      <3> QED BY <2>1, <3>1, <3>2, CheckFits DEF At, cluster
    <2> QED BY <1>2, <2>1, <2>2, <2>3 DEF cluster, DocumentFits
  <1>13. ASSUME NEW a \in Admins, ReplaceQueue(a)
         PROVE  Fits
    <2>1. admin'[a] = Idle /\ \A b \in Admins \ {a} : admin'[b] = admin[b]
      BY <1>13, EndsTyped DEF ReplaceQueue, QuotaInv
    <2>2. UNCHANGED <<nodes, syncs>>
      BY <1>13 DEF ReplaceQueue
    <2>3. queue' = queue \/ queue'.rev = queue.rev + 1
      BY <1>13 DEF ReplaceQueue, Edited
    <2>4. ASSUME NEW b \in Admins \ {a}, admin[b].stage \in {"totals", "cluster", "replace"}
          PROVE  DocumentFits(admin[b])'
      <3>1. admin[b].doc.rev \in Nat /\ admin[b].doc.rev <= queue.rev
        BY <1>2, <2>4, CommandShapes DEF DocumentFits, QuotaInv, TypeOK, QuotaCommands, Queues
      <3> QED BY <1>2, <1>3, <2>1, <2>2, <2>3, <3>1 DEF DocumentFits
    <2> QED BY <2>1, <2>4 DEF DocumentFits, Idle
  <1>14. ASSUME SyncNodes
         PROVE  Fits
    <2>1. UNCHANGED <<queue, admin>> /\ syncs' = syncs + 1
      BY <1>14 DEF SyncNodes
    <2>2. \A b \in Admins : admin[b].stage \in {"totals", "cluster", "replace"} => admin[b].seen \in Nat
      BY AdministrationAssumption, CommandShapes DEF QuotaInv, TypeOK, QuotaCommands
    <2> QED BY <1>2, <1>3, <2>1, <2>2 DEF DocumentFits
  <1>15. ASSUME UNCHANGED vars
         PROVE  Fits
    BY <1>4, <1>15 DEF vars, cluster
  <1>16. Fits
    <2> HIDE DEF Fits
    <2> QED BY <1>6, <1>7, <1>8, <1>9, <1>10, <1>11, <1>12, <1>13, <1>14, <1>15
            DEF Next, Command, ClusterCommand
  <1>17. DocumentsFit'
    BY <1>16 DEF DocumentsFit, DocumentFits
  <1> QED BY <1>1, <1>17 DEF QuotaInv

\* What a set-quota writes, when the queue is the one it has read.
LEMMA EditedFacts ==
  ASSUME TypeOK, NEW a \in Admins, At(a, "replace"), admin[a].doc = queue
  PROVE  /\ \A g \in DOMAIN queue.quota \ {admin[a].flavor} : Edited(a).quota[g] = queue.quota[g]
         /\ \A r \in DOMAIN queue.quota[admin[a].flavor] \ DOMAIN admin[a].ask :
               /\ r \in DOMAIN Edited(a).quota[admin[a].flavor]
               /\ Edited(a).quota[admin[a].flavor][r] = queue.quota[admin[a].flavor][r]
  <1> DEFINE c   == admin[a]
             old == queue.quota[c.flavor]
  <1>1. c.flavor \in DOMAIN InitialQuota
    BY CommandShapes DEF TypeOK, At, QuotaCommands
  <1>2. queue.quota \in [DOMAIN InitialQuota -> Amounts]
    BY DEF TypeOK, Queues
  <1>3. Edited(a).quota = [queue.quota EXCEPT ![c.flavor] = WithAsk(old, c.ask)]
    BY DEF Edited
  <1>4. ASSUME NEW r \in DOMAIN old \ DOMAIN c.ask
        PROVE  r \in DOMAIN WithAsk(old, c.ask) /\ WithAsk(old, c.ask)[r] = old[r]
    BY DEF WithAsk
  <1> QED BY <1>1, <1>2, <1>3, <1>4

\* A set-quota changes what it names and nothing else, compared with the queue
\* as it then is, and without --force the amounts it asks for, as they are
\* converted, stay within the nodes of its flavor: the resource version protects
\* the document between its two calls, whatever other administrators do in the
\* meantime.
THEOREM QuotasAreAsAsked == Spec => QuotaAsAsked
  <1>1. Init => QuotaInv
    <2>1. Init => DocumentsFit
      BY DEF Init, DocumentsFit, Idle
    <2> QED BY <2>1, InitTyped DEF QuotaInv
  <1>2. QuotaInv /\ [Next]_vars => QuotaInv'
    BY StepKeepsQuotas
  <1> DEFINE AsAsked(a) ==
               LET f == admin[a].flavor
                   ask == admin[a].ask
               IN  /\ \A g \in DOMAIN queue.quota \ {f} : queue'.quota[g] = queue.quota[g]
                   /\ \A r \in DOMAIN queue.quota[f] \ DOMAIN ask :
                         r \in DOMAIN queue'.quota[f] /\ queue'.quota[f][r] = queue.quota[f][r]
                   /\ ~admin[a].force /\ admin[a].seen = syncs /\ ~None(nodes[f])
                        => \A r \in DOMAIN ask : Amount(ask, r) <= nodes[f][r]
  <1>3. QuotaInv /\ [Next]_vars => [\A a \in Admins : Applies(a) => AsAsked(a)]_vars
    <2> SUFFICES ASSUME QuotaInv, [Next]_vars, NEW a \in Admins, Applies(a)
                 PROVE  AsAsked(a)
      OBVIOUS
    <2>1. PICK b \in Admins : ReplaceQueue(b)
      BY DEF Applies, Next, vars, SyncNodes, Command, ConfigCommand, SetFlavors, SetDefault, SetKey,
         PatchConfig, ClusterCommand, SetQuota, FlavorTotals, ClusterTotals, WeightCommand, SetWeight,
         ResetWeight, ResetAllWeights, DeleteWeights, Exclusive, MuteNext, Unmute, UserCommand, SetLabels,
         PatchLabel, GiveUp, cluster
    <2>2. b = a
      <3>1. b # a => admin'[a] = admin[a]
        BY <2>1, EndsTyped DEF ReplaceQueue, QuotaInv
      <3>2. admin'[a] # admin[a]
        BY DEF Applies, At, Idle
      <3> QED BY <3>1, <3>2
    <2>3. queue' = Edited(a) /\ admin[a].doc = queue
      <3>1. queue' = IF admin[a].doc.rev = queue.rev THEN Edited(a) ELSE queue
        BY <2>1, <2>2 DEF ReplaceQueue
      <3>2. queue'.rev # queue.rev /\ admin[a].stage = "replace"
        BY DEF Applies, At
      <3>3. admin[a].doc.rev = queue.rev
        BY <3>1, <3>2
      <3> QED BY <3>1, <3>2, <3>3 DEF QuotaInv, DocumentsFit
    <2>4. ~admin[a].force /\ admin[a].seen = syncs /\ ~None(nodes[admin[a].flavor])
             => \A r \in DOMAIN admin[a].ask : Amount(admin[a].ask, r) <= nodes[admin[a].flavor][r]
      BY DEF Applies, At, QuotaInv, DocumentsFit
    <2> QED BY <2>3, <2>4, EditedFacts DEF Applies, QuotaInv
  <1> QED BY <1>1, <1>2, <1>3, PTL DEF Spec, QuotaAsAsked
=============================================================================
