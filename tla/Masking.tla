------------------------------ MODULE Masking ------------------------------
(* Which fields of a row are masked: src/core/data-masking.ts and            *)
(* src/tools/result-masking.ts, under the configuration that the tools of    *)
(* src/tools/masking.ts change.                                              *)
(*                                                                           *)
(* A field is [named, valued]: the rules whose pattern matches its name, and *)
(* those whose pattern matches its value, a string.  Fields of excludeFields *)
(* are never masked and left out.  A configuration is [mode, rules]; enabled *)
(* is always mode # "off", and excludeConnections is read nowhere.           *)
EXTENDS Naturals, Sequences, SequencesExt

CONSTANTS
  Builtin,   \* DEFAULT_MASKING_RULES, in their order
  Custom     \* names of rules that may be added

Modes == {"off", "loose", "strict", "strict-v2"}

Fields == [named : SUBSET (Range(Builtin) \cup Custom), valued : SUBSET (Range(Builtin) \cup Custom)]

-----------------------------------------------------------------------------
(* The three ways to mask.  Each looks for one rule and leaves it at that.   *)

\* The place of the first of some rules, or 0 if there is none of them.
FirstIn(rules, among) == SelectInSeq(rules, LAMBDA r : r \in among)

\* shouldMaskField
ByName(field, rules) == FirstIn(rules, field.named)

\* The rule's mask of a field picked by its name.  A custom rule replaces what its
\* pattern matches, which may be nothing.
Strict(field, rules) ==
  LET i == ByName(field, rules)
  IN  i # 0 /\ (rules[i] \in Range(Builtin) \/ rules[i] \in field.valued)

StrictV2(field, rules) ==
  LET i == ByName(field, rules) IN i # 0 /\ rules[i] \in field.valued

Loose(field, rules) == FirstIn(rules, field.valued) # 0

\* applyMasking
Masked(field, config) ==
  CASE config.mode = "off"       -> FALSE
    [] config.mode = "loose"     -> Loose(field, config.rules)
    [] config.mode = "strict"    -> Strict(field, config.rules)
    [] config.mode = "strict-v2" -> StrictV2(field, config.rules)

-----------------------------------------------------------------------------
(* The configuration of a request.                                           *)

MaskingModeRank(mode) ==
  CASE mode = "off" -> 0 [] mode = "loose" -> 1 [] mode = "strict-v2" -> 2 [] mode = "strict" -> 3

\* Faulty variant: what the policy says replaces the configuration.
PolicyReplaces(base, forced) == IF forced = "none" THEN base ELSE [base EXCEPT !.mode = forced]

EffectiveMaskingConfig(base, forced) ==
  IF forced = "none" THEN base
  ELSE IF MaskingModeRank(forced) > MaskingModeRank(base.mode) THEN [base EXCEPT !.mode = forced]
  ELSE base

-----------------------------------------------------------------------------
(* The tools that change the configuration.                                  *)

\* The argument enabled of set_masking_mode is overwritten.
SetMode(config, mode) == [config EXCEPT !.mode = mode]

\* Faulty variant: a new rule goes first.
Prepended(rules, r) == <<r>> \o rules

WithRule(rules, r) == Append(rules, r)

CanAdd(config, r) == ~Contains(config.rules, r)

AddRule(config, r) == [config EXCEPT !.rules = WithRule(@, r)]

\* A builtin rule cannot be removed.
CanRemove(config, r) == Contains(config.rules, r) /\ r \notin Range(Builtin)

RemoveRule(config, r) == [config EXCEPT !.rules = RemoveFirst(@, r)]
=============================================================================
