---------------------------- MODULE Service_proofs ----------------------------
(***************************************************************************)
(* What holds of the process and its Bitcoin node for every set of scripts *)
(* and sources and every bound: settings that were validated suffice, a    *)
(* lookup is right for the tip of its round, and no descriptor is imported *)
(* twice.                                                                  *)
(***************************************************************************)
EXTENDS Service, SequenceTheorems, TLAPS

Wallets ==
  [onDisk : BOOLEAN, loaded : BOOLEAN, loadOnStartup : BOOLEAN,
   held : SUBSET Scripts, found : SUBSET Scripts]

\* The scripts that are rescanned, or are about to be.
Rescanned == IF rescan = None THEN {} ELSE rescan[1].scripts

FromTheStart == \A w \in settings.nodeWallet : w.rescanTimestamp = 0

\* A process that runs has validated its settings.
SettingsInv ==
  /\ pc # "off" => Validate(settings) /\ DepositsConvert
  /\ keeper = "starting" => pc # "off" /\ settings.rewardClaims # {}
  /\ ValidatedSettingsSuffice

\* Blocks, and the time of each output.
BlocksInv ==
  /\ now \in Nat /\ tip \in Nat /\ tip <= now
  /\ DOMAIN paid \subseteq Scripts
  /\ \A s \in DOMAIN paid : paid[s] \in Nat /\ paid[s] <= now

\* The wallet has seen every output to a script it holds, but for those whose
\* rescan goes on or was given up, and those it was not asked to look back for.
WalletInv ==
  /\ wallet \in Wallets
  /\ wallet.found \subseteq DOMAIN paid
  /\ Rescanned \subseteq Scripts
  /\ FromTheStart =>
       /\ rescan # None => rescan[1].timestamp = 0
       /\ \A s \in (wallet.held \cap DOMAIN paid) \ cut : s \in wallet.found \/ s \in Rescanned

\* Where a round is: what it imports is missing in the wallet, and what its
\* scan has found is what was there.
RoundInv ==
  /\ monitored \subseteq Scripts
  /\ pc \in {"import", "rescan", "descriptors", "unspent"} => settings.nodeWallet # {}
  /\ pc = "import" =>
       /\ asked # None
       /\ asked[1].scripts \subseteq Scripts \ wallet.held
       /\ FromTheStart => asked[1].timestamp = 0
  /\ pc = "scanning" =>
       /\ scan # None
       /\ scan[2] \subseteq monitored \cap DOMAIN paid
       /\ {s \in monitored \cap DOMAIN paid : paid[s] <= tip} \subseteq scan[2]

IInv == SettingsInv /\ BlocksInv /\ WalletInv /\ RoundInv

-----------------------------------------------------------------------------
LEMMA InitIInv == Init => IInv
<1> SUFFICES ASSUME Init PROVE IInv
  OBVIOUS
<1>1. SettingsInv
  BY DEF Init, SettingsInv, ValidatedSettingsSuffice
<1>2. BlocksInv
  BY DEF Init, NodeInit, None, BlocksInv
<1>3. wallet \in Wallets /\ wallet.found = {} /\ wallet.held = {}
  <2>1. NoWallet \in Wallets /\ NoWallet.found = {} /\ NoWallet.held = {}
    BY DEF Wallets, NoWallet
  <2>2. ASSUME wallet \in [onDisk : {TRUE}, loaded : BOOLEAN, loadOnStartup : {TRUE},
                           held : {{}}, found : {{}}]
        PROVE  wallet \in Wallets /\ wallet.found = {} /\ wallet.held = {}
    BY <2>2 DEF Wallets
  <2> QED
    BY <2>1, <2>2 DEF Init
<1>4. WalletInv
  BY <1>3 DEF Init, NodeInit, None, WalletInv, Rescanned
<1>5. RoundInv
  BY DEF Init, RoundInv
<1> QED
  BY <1>1, <1>2, <1>4, <1>5 DEF IInv

\* The settings are read once.
LEMMA SettingsStay ==
  ASSUME [Next]_vars
  PROVE  settings' = settings
<1> SUFFICES cfg' = cfg
  BY DEF settings
<1>1. CASE NodeActs
  BY <1>1 DEF NodeActs
<1>0. CASE NodeStops
  BY <1>0 DEF NodeStops
<1>2. CASE ReadSettings \/ GetSignersXonlyKey \/ GetDepositAddress \/ GetRegistryAddress
  BY <1>2 DEF ReadSettings, GetSignersXonlyKey, GetDepositAddress, GetRegistryAddress
<1>3. CASE LoadFails \/ CreateFails \/ KeeperStarts \/ KeeperFails \/ DescriptorInfoFails \/ ImportRefuses
  BY <1>3 DEF LoadFails, CreateFails, KeeperStarts, KeeperFails, DescriptorInfoFails, Prepare,
              ImportRefuses, Import
<1>4. CASE RescanTimesOut \/ ListUnspentFails \/ ScanAborted \/ ScanFails \/ Stop
  BY <1>4 DEF RescanTimesOut, ListUnspentFails, ScanAborted, ScanFails, Stop
<1>5. CASE Work
  BY <1>5 DEF Work, BuildContext, LoadOrCreate, Create, StartLoops, TakeTip, ListDescriptors, Prepare,
              ListDescriptorsFails, ImportMissing, Import, ImportFails, AwaitRescan, ListUnspent,
              ScanStatus, BeginScan, ScanEnds
<1>6. CASE UNCHANGED vars
  BY <1>6 DEF vars
<1> QED
  BY <1>0, <1>1, <1>2, <1>3, <1>4, <1>5, <1>6 DEF Next

-----------------------------------------------------------------------------
(* The settings.                                                           *)

\* Settings that were validated have what each part asks for.
LEMMA ValidatedContext ==
  ASSUME Validate(settings)
  PROVE  /\ ContextError # "MissingStacksConfig"
         /\ ContextError \notin {"already loaded", "not found"}
         /\ ContextError = "PortRequired" => ~ settings.hasPort
         /\ settings.rewardClaims # {} => ClientError # "MissingStacksConfig"
BY DEF Validate, ContextError, ClientError

\* loadwallet's answers other than these are no answers.
LEMMA LoadAnswers ==
  /\ LoadAnswer \in {"loaded", "already loaded", "not found"}
  /\ AfterLoad(LoadAnswer) \in {"start", "create"}
  /\ AfterLoad("no answer") = "off"
BY DEF LoadAnswer, AfterLoad

LEMMA StepSettings ==
  ASSUME SettingsInv, [Next]_vars
  PROVE  SettingsInv'
<1>s. settings' = settings
  BY SettingsStay
<1>e. ASSUME NEW why, Exit(why), why \notin {"MissingStacksConfig", "already loaded", "not found"},
             why = "PortRequired" => ~ settings.hasPort
      PROVE  SettingsInv'
  BY <1>s, <1>e DEF Exit, SettingsInv, ValidatedSettingsSuffice
<1>g. ASSUME pc # "off", pc' # "off", UNCHANGED <<error, keeper>>
      PROVE  SettingsInv'
  BY <1>s, <1>g DEF SettingsInv, ValidatedSettingsSuffice, DepositsConvert
<1>u. ASSUME UNCHANGED <<pc, error, keeper>>
      PROVE  SettingsInv'
  BY <1>s, <1>u DEF SettingsInv, ValidatedSettingsSuffice, DepositsConvert
<1>1. CASE NodeActs
  BY <1>1, <1>u DEF NodeActs, processVars
<1>2. CASE NodeStops
  BY <1>2, <1>u, <1>g DEF NodeStops, Looked, GoOn, processVars
<1>3. CASE ReadSettings
  <2>1. CASE Exit("ConfigError") \/ Exit("SpoxConfigError") \/ Exit("SbtcError")
    BY <1>e, <2>1
  <2>2. CASE /\ Validate(settings) /\ DepositsConvert
             /\ pc' = "parsed" /\ error' = "none" /\ UNCHANGED keeper
    BY <1>s, <2>2 DEF SettingsInv, ValidatedSettingsSuffice, DepositsConvert
  <2> QED
    BY <1>3, <2>1, <2>2 DEF ReadSettings
<1>4. CASE GetSignersXonlyKey \/ GetDepositAddress \/ GetRegistryAddress
  BY <1>4, <1>e DEF GetSignersXonlyKey, GetDepositAddress, GetRegistryAddress
<1>5. CASE BuildContext
  <2>1. Validate(settings) /\ pc # "off"
    BY <1>5 DEF BuildContext, SettingsInv
  <2>2. CASE Exit(ContextError)
    BY <1>e, <2>1, <2>2, ValidatedContext
  <2> QED
    BY <1>5, <1>g, <2>1, <2>2 DEF BuildContext
<1>6. CASE LoadOrCreate
  BY <1>6, <1>g, LoadAnswers DEF LoadOrCreate, TakeLoad, GoOn
<1>7. CASE LoadFails
  BY <1>7, <1>e, LoadAnswers DEF LoadFails, TakeLoad
<1>8. CASE Create
  BY <1>8, <1>g DEF Create, GoOn
<1>9. CASE CreateFails
  BY <1>9, <1>e DEF CreateFails
<1>10. CASE StartLoops
  BY <1>10, <1>s DEF StartLoops, SettingsInv, ValidatedSettingsSuffice, DepositsConvert
<1>11. CASE KeeperStarts \/ KeeperFails
  <2>1. Validate(settings) /\ settings.rewardClaims # {} /\ pc # "off"
    BY <1>11 DEF KeeperStarts, KeeperFails, SettingsInv
  <2>2. ClientError \in {"none", "InvalidStacksAuthToken"}
    BY <2>1, ValidatedContext DEF ClientError
  <2>3. keeper' \in {"runs", "stopped", "InvalidStacksAuthToken"}
    BY <1>11, <2>2 DEF KeeperStarts, KeeperFails
  <2>4. UNCHANGED <<pc, error>>
    BY <1>11 DEF KeeperStarts, KeeperFails
  <2> QED
    BY <1>s, <2>3, <2>4 DEF SettingsInv, ValidatedSettingsSuffice, DepositsConvert
<1>12. CASE DescriptorInfoFails \/ ImportRefuses \/ RescanTimesOut
  BY <1>12, <1>g DEF DescriptorInfoFails, Prepare, ImportRefuses, Import, RescanTimesOut, GoOn
<1>13. CASE ListUnspentFails \/ ScanAborted \/ ScanFails
  BY <1>13, <1>g DEF ListUnspentFails, ScanAborted, ScanFails, Looked
<1>14. CASE Stop
  BY <1>14, <1>e DEF Stop
<1>15. CASE TakeTip \/ ListDescriptors \/ ListDescriptorsFails \/ ImportMissing \/ ImportFails
            \/ AwaitRescan
  BY <1>15, <1>g DEF TakeTip, ListDescriptors, Prepare, ListDescriptorsFails, LeaveWallet,
     ImportMissing, Import, ImportFails, AwaitRescan, GoOn
<1>16. CASE ListUnspent \/ ScanStatus \/ BeginScan \/ ScanEnds
  BY <1>16, <1>g DEF ListUnspent, ScanStatus, BeginScan, ScanEnds, Looked, GoOn
<1>17. CASE UNCHANGED vars
  BY <1>17, <1>u DEF vars, processVars
<1> QED
  BY <1>1, <1>2, <1>3, <1>4, <1>5, <1>6, <1>7, <1>8, <1>9, <1>10, <1>11, <1>12, <1>13, <1>14, <1>15,
     <1>16, <1>17 DEF Next, Work

-----------------------------------------------------------------------------
(* The blocks, the wallet and the round.                                   *)

\* A round imports what the wallet does not hold: a listed descriptor without
\* its checksum is the one it was imported as.
LEMMA MissingIsNotHeld == Missing(Descriptors) \subseteq monitored \ wallet.held
<1> SUFFICES ASSUME NEW s \in monitored, s \in wallet.held
             PROVE  s \notin Missing(Descriptors)
  BY DEF Missing
<1> DEFINE d == WithChecksum(Raw(s))
           S == {s, "checksum"}
<1>1. /\ d \in Seq(S) /\ Len(d) = 2 /\ d[1] = s
      /\ Raw(s) \in Seq(S) /\ Len(Raw(s)) = 1 /\ Raw(s)[1] = s
  <2>1. <<s>> \in Seq(S) /\ Len(<<s>>) = 1 /\ <<s>>[1] = s
    OBVIOUS
  <2>2. <<"checksum">> \in Seq(S) /\ Len(<<"checksum">>) = 1
    OBVIOUS
  <2> QED
    BY <2>1, <2>2, ConcatProperties DEF WithChecksum, Raw
<1> HIDE DEF d
<1>2. StripChecksum(d) = Raw(s)
  <2>1. \A i \in 1 .. 1 : d[i] \in S
    BY <1>1
  <2> HIDE DEF S
  <2>2. SubSeq(d, 1, 1) \in Seq(S) /\ Len(SubSeq(d, 1, 1)) = 1 /\ SubSeq(d, 1, 1)[1] = d[1]
    BY <2>1, SubSeqProperties
  <2>3. SubSeq(d, 1, 1) = Raw(s)
    BY <1>1, <2>2, SeqEqual
  <2> QED
    BY <1>1, <2>3 DEF StripChecksum
<1>3. d \in Descriptors
  BY DEF Descriptors, d
<1> QED
  BY <1>2, <1>3 DEF Missing

\* What a step does to the node's blocks and wallet.
WalletStep ==
  \/ UNCHANGED <<now, paid, wallet, rescan, cut>>
  \/ \E scripts \in SUBSET Scripts : NewBlock(scripts)
  \/ FinishRescan
  \/ RestartNode
  \/ (LoadWallet \/ CreateWallet) /\ pc # "import" /\ UNCHANGED <<now, paid, rescan, cut>>
  \/ \E refused : Import(refused)

LEMMA WalletSteps ==
  ASSUME [Next]_vars
  PROVE  WalletStep
<1> USE DEF WalletStep, nodeVars
<1>1. CASE NodeActs
  BY <1>1 DEF NodeActs, FinishScan, OtherScan
<1>2. CASE NodeStops
  BY <1>2 DEF NodeStops
<1>3. CASE ReadSettings \/ GetSignersXonlyKey \/ GetDepositAddress \/ GetRegistryAddress
  BY <1>3 DEF ReadSettings, GetSignersXonlyKey, GetDepositAddress, GetRegistryAddress
<1>4. CASE LoadOrCreate \/ LoadFails \/ Create \/ CreateFails
  BY <1>4 DEF LoadOrCreate, LoadFails, Create, CreateFails
<1>5. CASE KeeperStarts \/ KeeperFails \/ DescriptorInfoFails
  BY <1>5 DEF KeeperStarts, KeeperFails, DescriptorInfoFails, Prepare
<1>6. CASE ImportRefuses \/ ImportMissing
  BY <1>6 DEF ImportRefuses, ImportMissing
<1>7. CASE RescanTimesOut \/ ListUnspentFails \/ ScanAborted \/ ScanFails \/ Stop
  BY <1>7 DEF RescanTimesOut, ListUnspentFails, ScanAborted, ScanFails, Stop
<1>8. CASE BuildContext \/ StartLoops \/ TakeTip \/ ListDescriptors \/ ListDescriptorsFails
  BY <1>8 DEF BuildContext, StartLoops, TakeTip, ListDescriptors, Prepare, ListDescriptorsFails
<1>9. CASE ImportFails \/ AwaitRescan \/ ListUnspent \/ ScanStatus \/ BeginScan \/ ScanEnds
  BY <1>9 DEF ImportFails, AwaitRescan, ListUnspent, ScanStatus, BeginScan, ScanEnds
<1>10. CASE UNCHANGED vars
  BY <1>10 DEF vars
<1> QED
  BY <1>1, <1>2, <1>3, <1>4, <1>5, <1>6, <1>7, <1>8, <1>9, <1>10 DEF Next, Work

\* A round takes the time of the last block.
LEMMA TipSteps ==
  ASSUME [Next]_vars
  PROVE  tip' = tip \/ (tip' = now /\ now' = now)
<1>1. CASE NodeActs
  BY <1>1 DEF NodeActs, roundVars
<1>2. CASE NodeStops
  BY <1>2 DEF NodeStops, roundVars, Looked, GoOn
<1>3. CASE ReadSettings \/ GetSignersXonlyKey \/ GetDepositAddress \/ GetRegistryAddress
  BY <1>3 DEF ReadSettings, GetSignersXonlyKey, GetDepositAddress, GetRegistryAddress, Exit, roundVars
<1>4. CASE LoadOrCreate \/ LoadFails \/ Create \/ CreateFails
  BY <1>4 DEF LoadOrCreate, LoadFails, Create, CreateFails, TakeLoad, Exit, GoOn, roundVars
<1>5. CASE KeeperStarts \/ KeeperFails \/ DescriptorInfoFails
  BY <1>5 DEF KeeperStarts, KeeperFails, DescriptorInfoFails, Prepare, roundVars
<1>6. CASE ImportRefuses \/ ImportMissing
  BY <1>6 DEF ImportRefuses, ImportMissing, Import
<1>7. CASE RescanTimesOut \/ ListUnspentFails \/ ScanAborted \/ ScanFails \/ Stop
  BY <1>7 DEF RescanTimesOut, ListUnspentFails, ScanAborted, ScanFails, Stop, Exit, GoOn, Looked,
              roundVars
<1>8. CASE BuildContext \/ StartLoops \/ TakeTip \/ ListDescriptors \/ ListDescriptorsFails
  BY <1>8 DEF BuildContext, StartLoops, TakeTip, ListDescriptors, Prepare, ListDescriptorsFails,
              LeaveWallet, Exit, roundVars, nodeVars
<1>9. CASE ImportFails \/ AwaitRescan \/ ListUnspent \/ ScanStatus \/ BeginScan \/ ScanEnds
  BY <1>9 DEF ImportFails, AwaitRescan, ListUnspent, ScanStatus, BeginScan, ScanEnds, LeaveWallet,
              GoOn, Looked, roundVars
<1>10. CASE UNCHANGED vars
  BY <1>10 DEF vars, roundVars
<1> QED
  BY <1>1, <1>2, <1>3, <1>4, <1>5, <1>6, <1>7, <1>8, <1>9, <1>10 DEF Next, Work

LEMMA StepBlocks ==
  ASSUME BlocksInv, [Next]_vars
  PROVE  BlocksInv' /\ now' \in {now, now + 1}
<1>1. CASE UNCHANGED <<now, paid>>
  BY <1>1, TipSteps DEF BlocksInv
<1>2. ASSUME NEW scripts \in SUBSET Scripts, NewBlock(scripts)
      PROVE  BlocksInv' /\ now' \in {now, now + 1}
  <2>1. now' = now + 1 /\ tip' \in Nat /\ tip' <= now'
    BY <1>2, TipSteps DEF BlocksInv, NewBlock
  <2>2. /\ DOMAIN paid' = DOMAIN paid \cup scripts
        /\ \A s \in DOMAIN paid' : paid'[s] = IF s \in DOMAIN paid THEN paid[s] ELSE now + 1
    BY <1>2 DEF NewBlock
  <2> QED
    BY <2>1, <2>2 DEF BlocksInv
<1> QED
  BY <1>1, <1>2, WalletSteps DEF WalletStep, FinishRescan, RestartNode, Import

LEMMA StepWallet ==
  ASSUME IInv, [Next]_vars
  PROVE  WalletInv'
<1> USE DEF IInv
<1>s. settings' = settings /\ (FromTheStart' <=> FromTheStart)
  BY SettingsStay DEF FromTheStart
<1>w. /\ wallet \in Wallets /\ wallet.found \subseteq DOMAIN paid
      /\ wallet.held \subseteq Scripts /\ wallet.found \subseteq Scripts
  BY DEF WalletInv, Wallets
<1>1. CASE UNCHANGED <<now, paid, wallet, rescan, cut>>
  BY <1>1, <1>s DEF WalletInv, Rescanned
<1>2. ASSUME NEW scripts \in SUBSET Scripts, NewBlock(scripts)
      PROVE  WalletInv'
  <2>1. /\ wallet' \in Wallets /\ wallet'.held = wallet.held
        /\ wallet'.found = wallet.found \cup (scripts \cap wallet.held)
    BY <1>2, <1>w DEF NewBlock, Wallets
  <2>2. DOMAIN paid' = DOMAIN paid \cup scripts /\ UNCHANGED <<rescan, cut>>
    BY <1>2 DEF NewBlock
  <2> QED
    BY <1>s, <1>w, <2>1, <2>2 DEF WalletInv, Rescanned
<1>3. CASE FinishRescan
  <2> DEFINE seen == PaidSince(rescan[1].scripts, rescan[1].timestamp)
  <2>1. seen \subseteq DOMAIN paid /\ seen \subseteq Scripts
    BY DEF PaidSince, BlocksInv
  <2>2. FromTheStart => seen = Rescanned \cap DOMAIN paid
    <3> SUFFICES ASSUME FromTheStart PROVE seen = Rescanned \cap DOMAIN paid
      OBVIOUS
    <3>1. rescan # None /\ rescan[1].timestamp = 0
      BY <1>3 DEF FinishRescan, WalletInv
    <3>2. \A s \in DOMAIN paid : paid[s] >= 0
      BY DEF BlocksInv
    <3> QED
      BY <3>1, <3>2 DEF PaidSince, Rescanned
  <2>3. /\ wallet' = [wallet EXCEPT !.found = @ \cup seen]
        /\ rescan' = None /\ UNCHANGED <<paid, cut>>
    BY <1>3 DEF FinishRescan
  <2> HIDE DEF seen
  <2>4. /\ wallet' \in Wallets /\ wallet'.held = wallet.held
        /\ wallet'.found = wallet.found \cup seen
    BY <1>w, <2>1, <2>3 DEF Wallets
  <2> QED
    BY <1>s, <1>w, <2>1, <2>2, <2>3, <2>4 DEF WalletInv, Rescanned
<1>4. CASE RestartNode
  <2>1. /\ wallet' \in Wallets /\ wallet'.held = wallet.held /\ wallet'.found = wallet.found
        /\ cut' = cut \cup Rescanned /\ rescan' = None /\ paid' = paid
    BY <1>4, <1>w DEF RestartNode, Wallets, Rescanned
  <2> QED
    BY <1>s, <1>w, <2>1 DEF WalletInv, Rescanned
<1>5. CASE LoadWallet /\ UNCHANGED <<now, paid, rescan, cut>>
  <2>1. wallet' \in Wallets /\ wallet'.held = wallet.held /\ wallet'.found = wallet.found
    BY <1>5, <1>w DEF LoadWallet, Wallets
  <2> QED
    BY <1>s, <1>5, <2>1 DEF WalletInv, Rescanned
<1>6. CASE CreateWallet /\ UNCHANGED <<now, paid, rescan, cut>>
  <2>1. wallet' \in Wallets /\ wallet'.held = {} /\ wallet'.found = {}
    BY <1>6 DEF CreateWallet, NoWallet, Wallets
  <2> QED
    BY <1>s, <1>6, <2>1 DEF WalletInv, Rescanned
<1>7. ASSUME NEW refused, Import(refused)
      PROVE  WalletInv'
  <2> DEFINE new == asked[1].scripts \ refused
  <2>1. /\ new \subseteq Scripts
        /\ FromTheStart => asked[1].timestamp = 0
    BY <1>7 DEF RoundInv, Import
  <2>2. /\ rescan = None /\ UNCHANGED <<paid, cut>>
        /\ rescan' = <<[scripts |-> new, timestamp |-> asked[1].timestamp]>>
        /\ wallet' = [wallet EXCEPT !.held = @ \cup new]
    BY <1>7 DEF Import, CanImport, ImportDescriptors
  <2> HIDE DEF new
  <2>3. rescan' # None /\ rescan'[1].scripts = new /\ rescan'[1].timestamp = asked[1].timestamp
    BY <2>2 DEF None
  <2>4. Rescanned = {} /\ Rescanned' = new
    BY <2>2, <2>3 DEF Rescanned
  <2>5. /\ wallet' \in Wallets /\ wallet'.held = wallet.held \cup new
        /\ wallet'.found = wallet.found
    BY <1>w, <2>1, <2>2 DEF Wallets
  <2> QED
    BY <1>s, <1>w, <2>1, <2>2, <2>3, <2>4, <2>5 DEF WalletInv
<1> QED
  BY <1>1, <1>2, <1>3, <1>4, <1>5, <1>6, <1>7, WalletSteps DEF WalletStep

\* The part of the round that a step leaves where it is.
LEMMA RoundStays ==
  ASSUME IInv, [Next]_vars, UNCHANGED <<pc, asked, monitored, tip>>,
         wallet'.held = wallet.held,
         \/ UNCHANGED <<paid, scan>>
         \/ \E scripts \in SUBSET Scripts : NewBlock(scripts)
         \/ pc # "scanning"
  PROVE  RoundInv'
<1>s. settings' = settings /\ (FromTheStart' <=> FromTheStart)
  BY SettingsStay DEF FromTheStart
<1>1. pc = "scanning" =>
        /\ scan' = scan
        /\ DOMAIN paid \subseteq DOMAIN paid'
        /\ \A s \in DOMAIN paid' :
             (s \in DOMAIN paid /\ paid'[s] = paid[s]) \/ ~ (paid'[s] <= tip)
  <2>1. CASE UNCHANGED <<paid, scan>>
    BY <2>1
  <2>2. ASSUME NEW scripts \in SUBSET Scripts, NewBlock(scripts)
        PROVE  /\ scan' = scan
               /\ DOMAIN paid \subseteq DOMAIN paid'
               /\ \A s \in DOMAIN paid' :
                    (s \in DOMAIN paid /\ paid'[s] = paid[s]) \/ ~ (paid'[s] <= tip)
    <3>1. scan' = scan /\ DOMAIN paid' = DOMAIN paid \cup scripts
          /\ \A s \in DOMAIN paid' : paid'[s] = IF s \in DOMAIN paid THEN paid[s] ELSE now + 1
      BY <2>2 DEF NewBlock
    <3>2. ~ (now + 1 <= tip)
      BY DEF IInv, BlocksInv
    <3> QED
      BY <3>1, <3>2
  <2> QED
    BY <2>1, <2>2
<1>2. pc = "scanning" =>
        /\ scan[2] \subseteq monitored \cap DOMAIN paid'
        /\ {s \in monitored \cap DOMAIN paid' : paid'[s] <= tip} \subseteq scan[2]
  BY <1>1 DEF IInv, RoundInv
<1> QED
  BY <1>s, <1>1, <1>2 DEF IInv, RoundInv

LEMMA StepRound ==
  ASSUME IInv, [Next]_vars
  PROVE  RoundInv'
<1>s. settings' = settings /\ (FromTheStart' <=> FromTheStart)
  BY SettingsStay DEF FromTheStart
<1>w. wallet \in Wallets /\ BlocksInv
  BY DEF IInv, WalletInv
<1>m. monitored \subseteq Scripts
  BY DEF IInv, RoundInv
<1>e. ASSUME NEW why, Exit(why)
      PROVE  RoundInv'
  BY <1>e DEF Exit, RoundInv
<1>i. ASSUME pc' \notin {"import", "rescan", "descriptors", "unspent", "scanning"},
             monitored' \subseteq Scripts
      PROVE  RoundInv'
  BY <1>i DEF RoundInv
<1>c. ASSUME pc' \in {"rescan", "descriptors", "unspent"}, settings.nodeWallet # {},
             monitored' \subseteq Scripts
      PROVE  RoundInv'
  BY <1>c, <1>s DEF RoundInv
<1>h. ASSUME wallet' = wallet \/ FinishRescan \/ RestartNode
             \/ \E scripts \in SUBSET Scripts : NewBlock(scripts)
      PROVE  wallet'.held = wallet.held
  BY <1>h, <1>w DEF FinishRescan, RestartNode, NewBlock, Wallets
<1>1. CASE NodeActs
  <2>1. UNCHANGED <<pc, asked, monitored, tip>>
    BY <1>1 DEF NodeActs, processVars, roundVars
  <2>2. \/ UNCHANGED <<paid, scan>> /\ FinishRescan
        \/ \E scripts \in SUBSET Scripts : NewBlock(scripts)
        \/ pc # "scanning" /\ wallet' = wallet
    <3>1. CASE FinishRescan
      BY <3>1 DEF FinishRescan
    <3>2. CASE FinishScan /\ pc # "scanning"
      BY <3>2 DEF FinishScan
    <3>3. CASE OtherScan
      BY <3>3 DEF OtherScan, IInv, RoundInv
    <3> QED
      BY <1>1, <3>1, <3>2, <3>3 DEF NodeActs
  <2> QED
    BY <1>h, <2>1, <2>2, RoundStays
<1>2. CASE NodeStops
  <2>1. CASE pc = "scanning"
    <3>1. Looked(None)
      BY <1>2, <2>1 DEF NodeStops
    <3> QED
      BY <1>i, <1>m, <3>1 DEF Looked
  <2>2. CASE pc = "rescan"
    <3>1. GoOn("unspent") /\ settings.nodeWallet # {}
      BY <1>2, <2>2 DEF NodeStops, IInv, RoundInv
    <3> QED
      BY <1>c, <1>m, <3>1 DEF GoOn
  <2>3. CASE pc \notin {"scanning", "rescan"}
    <3>1. UNCHANGED <<pc, asked, monitored, tip>> /\ RestartNode
      BY <1>2, <2>3 DEF NodeStops, processVars, roundVars
    <3> QED
      BY <1>h, <2>3, <3>1, RoundStays
  <2> QED
    BY <2>1, <2>2, <2>3
<1>3. CASE ReadSettings
  BY <1>3, <1>e, <1>i, <1>m DEF ReadSettings
<1>4. CASE GetSignersXonlyKey \/ GetDepositAddress \/ GetRegistryAddress
  BY <1>4, <1>e DEF GetSignersXonlyKey, GetDepositAddress, GetRegistryAddress
<1>5. CASE BuildContext
  <2>1. settings.deposit \subseteq Scripts
    BY <1>5 DEF BuildContext, IInv, SettingsInv, DepositsConvert
  <2>2. Exit(ContextError) \/ (pc' \in {"start", "load"} /\ monitored' = settings.deposit)
    BY <1>5 DEF BuildContext
  <2> QED
    BY <1>e, <1>i, <2>1, <2>2
<1>6. CASE LoadOrCreate
  BY <1>6, <1>i, <1>m, LoadAnswers DEF LoadOrCreate, TakeLoad, GoOn
<1>7. CASE LoadFails \/ CreateFails
  BY <1>7, <1>e, LoadAnswers DEF LoadFails, TakeLoad, CreateFails
<1>8. CASE Create \/ StartLoops
  BY <1>8, <1>i, <1>m DEF Create, StartLoops, GoOn
<1>9. CASE KeeperStarts \/ KeeperFails
  <2>1. UNCHANGED <<pc, asked, monitored, tip, paid, scan, wallet>>
    BY <1>9 DEF KeeperStarts, KeeperFails, nodeVars, roundVars
  <2> QED
    BY <2>1, RoundStays
<1>10. CASE TakeTip
  <2>1. monitored' \subseteq Scripts
    BY <1>10, <1>m, SourcesAssumption DEF TakeTip
  <2>2. pc' \in {"idle", "status"} \/ (pc' = "descriptors" /\ settings.nodeWallet # {})
    BY <1>10 DEF TakeTip
  <2> QED
    BY <1>c, <1>i, <2>1, <2>2
<1>11. ASSUME NEW skipped, Prepare(Descriptors, skipped)
       PROVE  RoundInv'
  <2>1. settings.nodeWallet # {} /\ UNCHANGED <<monitored, wallet, settings>>
    BY <1>11, <1>s DEF Prepare, IInv, RoundInv, nodeVars
  <2>2. CASE pc' = "unspent"
    BY <1>c, <1>m, <2>1, <2>2
  <2>3. CASE /\ pc' = "import"
             /\ asked' = <<[scripts |-> Missing(Descriptors) \ skipped, timestamp |-> RescanFrom]>>
    <3>1. /\ asked' # None /\ asked'[1].scripts = Missing(Descriptors) \ skipped
          /\ asked'[1].timestamp = RescanFrom
      BY <2>3 DEF None
    <3>2. asked'[1].scripts \subseteq Scripts \ wallet.held
      BY <1>m, <3>1, MissingIsNotHeld
    <3>3. FromTheStart => RescanFrom = 0
      BY <2>1 DEF FromTheStart, RescanFrom, GetRescanTimestamp
    <3> QED
      BY <1>m, <1>s, <2>1, <2>3, <3>1, <3>2, <3>3 DEF RoundInv
  <2> QED
    BY <1>11, <2>2, <2>3 DEF Prepare
<1>12. CASE ListDescriptors \/ DescriptorInfoFails
  BY <1>11, <1>12 DEF ListDescriptors, DescriptorInfoFails
<1>13. CASE ListDescriptorsFails \/ ImportFails
  BY <1>13, <1>c, <1>m DEF ListDescriptorsFails, ImportFails, LeaveWallet, IInv, RoundInv
<1>14. CASE ImportMissing \/ ImportRefuses
  BY <1>14, <1>c, <1>m DEF ImportMissing, ImportRefuses, Import, IInv, RoundInv
<1>15. CASE AwaitRescan \/ RescanTimesOut
  BY <1>15, <1>c, <1>m DEF AwaitRescan, RescanTimesOut, GoOn, IInv, RoundInv
<1>16. CASE ListUnspent \/ ListUnspentFails \/ ScanEnds \/ ScanAborted \/ ScanFails
  BY <1>16, <1>i, <1>m DEF ListUnspent, ListUnspentFails, ScanEnds, ScanAborted, ScanFails, Looked
<1>17. CASE ScanStatus
  BY <1>17, <1>i, <1>m DEF ScanStatus, Looked, GoOn
<1>18. CASE BeginScan
  <2>1. CASE Looked(None)
    BY <1>i, <1>m, <2>1 DEF Looked
  <2>2. CASE StartScan(monitored) /\ GoOn("scanning")
    <3>1. /\ scan' = <<"ours", monitored \cap DOMAIN paid>> /\ pc' = "scanning"
          /\ monitored' = monitored /\ paid' = paid /\ tip' = tip
      BY <1>18, <2>2 DEF BeginScan, StartScan, GoOn, roundVars
    <3>2. scan' # None /\ scan'[2] = monitored \cap DOMAIN paid
      BY <3>1 DEF None
    <3> QED
      BY <1>m, <3>1, <3>2 DEF RoundInv
  <2> QED
    BY <1>18, <2>1, <2>2 DEF BeginScan
<1>19. CASE Stop
  BY <1>19, <1>e DEF Stop
<1>20. CASE UNCHANGED vars
  <2>1. UNCHANGED <<pc, asked, monitored, tip, paid, scan, wallet>>
    BY <1>20 DEF vars, nodeVars, processVars, roundVars
  <2> QED
    BY <2>1, RoundStays
<1> QED
  BY <1>1, <1>2, <1>3, <1>4, <1>5, <1>6, <1>7, <1>8, <1>9, <1>10, <1>12, <1>13, <1>14, <1>15,
     <1>16, <1>17, <1>18, <1>19, <1>20 DEF Next, Work

\* The invariant is inductive.
THEOREM Inductive == Spec => []IInv
<1>1. IInv /\ [Next]_vars => IInv'
  <2> SUFFICES ASSUME IInv, [Next]_vars PROVE IInv'
    OBVIOUS
  <2>1. SettingsInv' /\ BlocksInv'
    BY StepSettings, StepBlocks DEF IInv
  <2> QED
    BY <2>1, StepWallet, StepRound DEF IInv
<1> QED
  BY <1>1, InitIInv, PTL DEF Spec

-----------------------------------------------------------------------------
\* Validated settings have all that the process asks for, whatever the sources:
\* it never ends for a Stacks stanza it lacks, a port that is there, or an
\* answer of the node that setup_wallet takes, and neither does the keeper.
THEOREM SettingsSuffice == Spec => []ValidatedSettingsSuffice
<1>1. IInv => ValidatedSettingsSuffice
  BY DEF IInv, SettingsInv
<1> QED
  BY <1>1, Inductive, PTL

\* What update_wallet imports the wallet does not hold, whatever happened since
\* the descriptors were listed.
THEOREM ImportsAreNew == Spec => NothingImportedTwice
<1>1. ASSUME IInv, [Next]_vars, rescan' # None, rescan' # rescan
      PROVE  rescan'[1].scripts \cap wallet.held = {}
  <2>1. PICK refused : Import(refused)
    BY <1>1, WalletSteps DEF WalletStep, NewBlock, FinishRescan, RestartNode
  <2>2. rescan' = <<[scripts |-> asked[1].scripts \ refused, timestamp |-> asked[1].timestamp]>>
    BY <2>1 DEF Import, ImportDescriptors
  <2>3. asked[1].scripts \cap wallet.held = {}
    BY <1>1, <2>1 DEF IInv, RoundInv, Import
  <2> QED
    BY <2>2, <2>3
<1>2. IInv /\ [Next]_vars =>
        [rescan' # None /\ rescan' # rescan => rescan'[1].scripts \cap wallet.held = {}]_vars
  BY <1>1
<1> QED
  BY <1>2, Inductive, PTL DEF Spec, NothingImportedTwice

\* Where the answer of a lookup comes from.
LEMMA LookSteps ==
  ASSUME [Next]_vars
  PROVE  \/ looked' \in {looked, None}
         \/ pc = "unspent" /\ looked' = <<wallet.found \cap monitored>>
         \/ pc = "scanning" /\ looked' = <<scan[2]>>
<1>e. \A why : Exit(why) => looked' = None
  BY DEF Exit
<1>g. \A to : GoOn(to) => looked' = looked
  BY DEF GoOn, roundVars
<1>l. \A answer : Looked(answer) => looked' = answer
  BY DEF Looked
<1>1. CASE NodeActs
  BY <1>1 DEF NodeActs, roundVars
<1>2. CASE NodeStops
  BY <1>2, <1>g, <1>l DEF NodeStops, roundVars
<1>3. CASE ReadSettings \/ GetSignersXonlyKey \/ GetDepositAddress \/ GetRegistryAddress
  BY <1>3, <1>e DEF ReadSettings, GetSignersXonlyKey, GetDepositAddress, GetRegistryAddress, roundVars
<1>4. CASE LoadOrCreate \/ LoadFails \/ Create \/ CreateFails
  BY <1>4, <1>e, <1>g DEF LoadOrCreate, LoadFails, Create, CreateFails, TakeLoad
<1>5. CASE KeeperStarts \/ KeeperFails \/ DescriptorInfoFails
  BY <1>5 DEF KeeperStarts, KeeperFails, DescriptorInfoFails, Prepare, roundVars
<1>6. CASE ImportRefuses \/ ImportMissing
  BY <1>6 DEF ImportRefuses, ImportMissing, Import
<1>7. CASE RescanTimesOut \/ ListUnspentFails \/ ScanAborted \/ ScanFails \/ Stop
  BY <1>7, <1>e, <1>g, <1>l DEF RescanTimesOut, ListUnspentFails, ScanAborted, TakeScan, ScanFails, Stop
<1>8. CASE BuildContext \/ StartLoops \/ TakeTip \/ ListDescriptors \/ ListDescriptorsFails
  BY <1>8, <1>e DEF BuildContext, StartLoops, TakeTip, ListDescriptors, Prepare, ListDescriptorsFails,
                    LeaveWallet, roundVars
<1>9. CASE ImportFails \/ AwaitRescan \/ ScanStatus \/ BeginScan
  BY <1>9, <1>g, <1>l DEF ImportFails, LeaveWallet, AwaitRescan, ScanStatus, BeginScan
<1>10. CASE ListUnspent
  BY <1>10, <1>l DEF ListUnspent
<1>11. CASE ScanEnds
  BY <1>11, <1>l DEF ScanEnds, TakeScan
<1>12. CASE UNCHANGED vars
  BY <1>12 DEF vars, roundVars
<1> QED
  BY <1>1, <1>2, <1>3, <1>4, <1>5, <1>6, <1>7, <1>8, <1>9, <1>10, <1>11, <1>12 DEF Next, Work

\* An answer is the truth about the tip of its round: a scan is of the monitored
\* scripts and began after the tip was read, and the wallet has seen what it
\* holds, however its imports, rescans and restarts fell.
THEOREM LookupsAreRight == Spec => LookupsCoverTheTip
<1>1. ASSUME IInv, [Next]_vars, looked' # looked, looked' # None
      PROVE  /\ looked'[1] \subseteq monitored \cap DOMAIN paid
             /\ {s \in monitored \cap DOMAIN paid : paid[s] <= tip /\ Answers(s)} \subseteq looked'[1]
  <2>1. CASE pc = "unspent" /\ looked' = <<wallet.found \cap monitored>>
    <3>1. looked'[1] = wallet.found \cap monitored /\ settings.nodeWallet # {}
      BY <1>1, <2>1 DEF IInv, RoundInv
    <3>2. ASSUME NEW s \in monitored \cap DOMAIN paid, Answers(s)
          PROVE  s \in wallet.found
      <4>1. FromTheStart /\ s \in wallet.held \ cut /\ s \notin Rescanned
        BY <3>1, <3>2 DEF Answers, FromTheStart, Rescanned
      <4> QED
        BY <1>1, <3>2, <4>1 DEF IInv, WalletInv
    <3>3. wallet.found \subseteq DOMAIN paid
      BY <1>1 DEF IInv, WalletInv
    <3> QED
      BY <3>1, <3>2, <3>3
  <2>2. CASE pc = "scanning" /\ looked' = <<scan[2]>>
    <3>1. looked'[1] = scan[2]
      BY <2>2
    <3> QED
      BY <1>1, <2>2, <3>1 DEF IInv, RoundInv
  <2> QED
    BY <1>1, <2>1, <2>2, LookSteps
<1>2. IInv /\ [Next]_vars =>
        [looked' # looked /\ looked' # None =>
           /\ looked'[1] \subseteq monitored \cap DOMAIN paid
           /\ {s \in monitored \cap DOMAIN paid : paid[s] <= tip /\ Answers(s)} \subseteq looked'[1]]_vars
  BY <1>1
<1> QED
  BY <1>2, Inductive, PTL DEF Spec, LookupsCoverTheTip
=============================================================================
