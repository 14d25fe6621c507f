------------------------------ MODULE Settings ------------------------------
(***************************************************************************)
(* steadyhand.toml as the program reads it (config.py): the keys it may    *)
(* hold and their defaults, the strategies' settings in the registry, what *)
(* load refuses and what it hands to the constructors, and what they       *)
(* refuse themselves.                                                      *)
(*                                                                         *)
(* A key is named as the audit log names it. A value is what TOML gives: a *)
(* whole number, a text, a text that is a decimal (in hundredths), a flag  *)
(* or a date. How the file is laid out is left out, but for how its        *)
(* [training] table is written (ConfigFile).                               *)
(***************************************************************************)
EXTENDS Integers, FiniteSets

Whole(n) == [int |-> n]
Hundredths(n) == [decimal |-> n]
Text(words) == [text |-> words]
Flag(on) == [flag |-> on]
IsRaw(raw) ==
    \/ "int" \in DOMAIN raw /\ raw = Whole(raw.int) /\ raw.int \in Int
    \/ "decimal" \in DOMAIN raw /\ raw = Hundredths(raw.decimal) /\ raw.decimal \in Int
    \/ "text" \in DOMAIN raw /\ raw = Text(raw.text)
    \/ "flag" \in DOMAIN raw /\ raw = Flag(raw.flag)
    \/ "date" \in DOMAIN raw /\ raw = [date |-> raw.date]

Entry(key, raw) == [key |-> key, raw |-> raw]
Keyed(entries) ==
    [key \in {entry.key : entry \in entries} |-> (CHOOSE entry \in entries : entry.key = key).raw]
Over(top, rest) ==
    [key \in DOMAIN top \cup DOMAIN rest |-> IF key \in DOMAIN top THEN top[key] ELSE rest[key]]

AtLeast(raw, least) == "int" \in DOMAIN raw /\ raw.int >= least
OneOf(raw, known) == "text" \in DOMAIN raw /\ raw.text \in known
Words(raw) == "decimal" \in DOMAIN raw \/ ("text" \in DOMAIN raw /\ raw.text # "")
Rate(raw, most) == "decimal" \in DOMAIN raw /\ raw.decimal \in 1..most

-----------------------------------------------------------------------------
(* The registered strategies.                                              *)

Setting(key, default, minimum, maximum) ==
    [key |-> key, default |-> default, minimum |-> minimum, maximum |-> maximum]

Registered ==
    Keyed({Entry("buy-and-hold", {}),
           Entry("monthly-savings", {Setting("strategy.instalments", 12, 1, 120)}),
           Entry("dividend-growth", {Setting("strategy.min_stocks", 15, 1, 45),
                                     Setting("strategy.max_stocks", 25, 1, 45),
                                     Setting("strategy.growth_years", 5, 1, 10)})})

StrategySettings == UNION {Registered[name] : name \in DOMAIN Registered}

\* What the strategy's own constructor accepts.
Makes(name, values) ==
    /\ \A setting \in Registered[name] : values[setting.key] >= 1
    /\ name = "dividend-growth" => values["strategy.max_stocks"] >= values["strategy.min_stocks"]

\* The calendar years of actions before a run that the strategy reads.
LookbackYears(name, values) ==
    IF name = "dividend-growth" THEN values["strategy.growth_years"] + 1 ELSE 0

-----------------------------------------------------------------------------
(* The file.                                                               *)

BrokerPresets == {"ajaib", "custom"}
Levels == {"off", "new", "some", "experienced"}
MaxPayLag == 250

StrategyKeys == {setting.key : setting \in StrategySettings}

Defaults ==
    Keyed({Entry("account.starting_cash_idr", Whole(10^7)),
           Entry("account.monthly_contribution_idr", Whole(0)),
           Entry("account.broker_fees", Text("custom")),
           Entry("goal.monthly_income_target_idr", Whole(10^7)),
           Entry("strategy.name", Text("dividend-growth")),
           Entry("risk.max_weight", Hundredths(10)),
           Entry("risk.daily_loss_limit", Hundredths(5)),
           Entry("risk.max_drawdown", Hundredths(25)),
           Entry("risk.max_volume_participation", Hundredths(10)),
           Entry("universe.lq45_members", Text("lq45_members.toml")),
           Entry("dividends.pay_lag_trading_days", Whole(14)),
           Entry("tax.dividend_reinvestment_exemption", Flag(FALSE))}
          \cup {Entry(setting.key, Whole(setting.default)) : setting \in StrategySettings})

Consent == "consent.disclaimer_accepted"
TrainingKeys == {"training.level", "training.levels"}   \* all carried on unread; one is known

\* The file init writes: every key.
Starter(level, exemption, day) ==
    Over(Keyed({Entry("training.level", Text(level)), Entry(Consent, [date |-> day]),
                Entry("tax.dividend_reinvestment_exemption", Flag(exemption))}), Defaults)

\* What the file gives over the defaults.
Read_defaultsFirst(given) == Over(Defaults, given)
Read(given) == Over(given, Defaults)

Loads(given) ==
    LET read == Read(given)
    IN  /\ DOMAIN given \subseteq DOMAIN Defaults \cup {Consent} \cup TrainingKeys
        /\ AtLeast(read["account.starting_cash_idr"], 1)
        /\ AtLeast(read["account.monthly_contribution_idr"], 0)
        /\ AtLeast(read["goal.monthly_income_target_idr"], 1)
        /\ Rate(read["risk.max_volume_participation"], 100) /\ Rate(read["risk.max_weight"], 100)
        /\ Rate(read["risk.daily_loss_limit"], 99) /\ Rate(read["risk.max_drawdown"], 99)
        /\ AtLeast(read["dividends.pay_lag_trading_days"], 1)
        /\ read["dividends.pay_lag_trading_days"].int <= MaxPayLag
        /\ "flag" \in DOMAIN read["tax.dividend_reinvestment_exemption"]
        /\ OneOf(read["account.broker_fees"], BrokerPresets)
        /\ OneOf(read["strategy.name"], DOMAIN Registered)
        /\ \A setting \in StrategySettings :
                AtLeast(read[setting.key], setting.minimum) /\ read[setting.key].int <= setting.maximum
        /\ \A name \in DOMAIN Registered :
                Makes(name, [key \in {s.key : s \in Registered[name]} |-> read[key].int])
        /\ Words(read["universe.lq45_members"])
        /\ Consent \in DOMAIN given /\ "date" \in DOMAIN given[Consent]

\* What is loaded. A contribution of 0 adds none.
Config(given) ==
    LET read == Read(given)
        contribution == read["account.monthly_contribution_idr"].int
    IN  [capital |-> read["account.starting_cash_idr"].int,
         contribution |-> IF contribution = 0 THEN {} ELSE {contribution},
         target |-> read["goal.monthly_income_target_idr"].int,
         payLag |-> read["dividends.pay_lag_trading_days"].int,
         exemption |-> read["tax.dividend_reinvestment_exemption"].flag,
         volumeCap |-> read["risk.max_volume_participation"].decimal,
         maxWeight |-> read["risk.max_weight"].decimal,
         dailyLoss |-> read["risk.daily_loss_limit"].decimal,
         maxDrawdown |-> read["risk.max_drawdown"].decimal,
         brokerFees |-> read["account.broker_fees"].text,
         strategy |-> read["strategy.name"].text,
         strategySettings |-> [key \in StrategyKeys |-> read[key].int],
         training |-> [key \in DOMAIN given \cap TrainingKeys |-> given[key]]]

\* The level of explanations, checked only where a command's text is put together.
LevelAccepted(training) ==
    /\ DOMAIN training \subseteq {"training.level"}
    /\ "training.level" \in DOMAIN training => OneOf(training["training.level"], Levels)

-----------------------------------------------------------------------------
(* What the constructors accept, each checking for itself.                 *)

StrategyAccepts(name, values) ==
    /\ \A setting \in Registered[name] : values[setting.key] \in setting.minimum..setting.maximum
    /\ Makes(name, values)
FillSettingsAccept(config) == 0 < config.volumeCap /\ config.volumeCap <= 100
RiskLimitsAccept(config) ==
    /\ 0 < config.maxWeight /\ config.maxWeight <= 100
    /\ 0 < config.dailyLoss /\ config.dailyLoss < 100
    /\ 0 < config.maxDrawdown /\ config.maxDrawdown < 100
EngineSettingsAccept(config) ==
    (\A contribution \in config.contribution : contribution > 0) /\ config.payLag >= 1
IncomeSettingsAccept(config) ==
    (\A contribution \in config.contribution : contribution > 0) /\ config.target > 0 /\ config.payLag >= 1
BacktestSettingsAccept(config, name) ==
    config.capital > 0 /\ LookbackYears(name, config.strategySettings) >= 0

-----------------------------------------------------------------------------
(* The settings a day runs with, as they are saved beside the account.     *)

SettingsOf(config) ==
    Keyed({Entry("account.starting_cash_idr", Whole(config.capital)),
           Entry("account.monthly_contribution_idr",
                 Whole(IF config.contribution = {} THEN 0 ELSE CHOOSE amount \in config.contribution : TRUE)),
           Entry("account.broker_fees", Text(config.brokerFees)),
           Entry("goal.monthly_income_target_idr", Whole(config.target)),
           Entry("risk.max_weight", Hundredths(config.maxWeight)),
           Entry("risk.daily_loss_limit", Hundredths(config.dailyLoss)),
           Entry("risk.max_drawdown", Hundredths(config.maxDrawdown)),
           Entry("risk.max_volume_participation", Hundredths(config.volumeCap)),
           Entry("dividends.pay_lag_trading_days", Whole(config.payLag)),
           Entry("tax.dividend_reinvestment_exemption", Flag(config.exemption))}
          \cup {Entry(setting.key, Whole(config.strategySettings[setting.key])) :
                    setting \in Registered[config.strategy]})

\* The lines the audit log gets for them: each setting that is not what it was.
Changes(before, after) ==
    {[key |-> key, new |-> after[key]] :
        key \in {k \in DOMAIN after : k \notin DOMAIN before \/ before[k] # after[k]}}
=============================================================================
