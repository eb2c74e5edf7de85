---------------------------- MODULE MCConfigPage ----------------------------
EXTENDS ConfigPage

MCConfigs ==
  {Config0} \cup
  {[Config0 EXCEPT !.provider.kind = "openai_compat", !.provider.endpoint = "openai_compat",
                   !.provider.api_key = "stored", !.provider.model = id] : id \in {"m", "n"}}

\* A small window, a large one with a ceiling on its answers, and a model of the same name that
\* another service limits differently.
Models == <<Model("m", 2048, 0), Model("n", 1000000, 6000)>>
MCCatalogue == [mock |-> << >>, anthropic |-> Models, openai_compat |-> Models,
                chatgpt |-> <<Model("m", 200000, 0)>>]
MCEnv == [kind \in Kinds |-> IF kind = "openai_compat" THEN "env" ELSE ""]
=============================================================================
