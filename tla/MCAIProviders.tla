----------------------------- MODULE MCAIProviders -----------------------------
(* AIProviders with one provider of the free tier and one that needs a licence. *)
EXTENDS AIProviders

OneOfEach == {[type |-> "ollama", model |-> "tinyllama"], [type |-> "openai", model |-> "other"]}
=============================================================================
