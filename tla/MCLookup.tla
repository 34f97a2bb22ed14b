------------------------------ MODULE MCLookup ------------------------------
(* Requests that are alike in every way the tiers, the estimator and the adapters
   tell apart. *)
EXTENDS Lookup

CONSTANTS a1, a2

Symmetry == Permutations(Asks)

Bare(t) == [form |-> "string", parts |-> <<[type |-> "text", text |-> t]>>]
WithImage(t) == [form |-> "parts", parts |-> <<[type |-> "text", text |-> t],
                                               [type |-> "image", text |-> <<"i">>]>>]
Msg(role, content) == [role |-> role, content |-> content]

Hi == <<"h", "i">>
Hit == <<"h", "i", "t">>
System == Msg("system", Bare(<<"o", "r">>))

Plain ==
    [readable |-> TRUE, model |-> "m", messages |-> <<System, Msg("user", Bare(Hi))>>,
     temperature |-> 0, top_p |-> None, tools |-> "absent", seed |-> None, logprobs |-> FALSE,
     n |-> None, max_tokens |-> 1, max_completion_tokens |-> None,
     stop |-> [bare |-> FALSE, words |-> <<>>],
     stream |-> FALSE, stream_options |-> "absent", user |-> "", metadata |-> ""]

Ask(tenant, model, kind, body) == [tenant |-> tenant, model |-> model, kind |-> kind, body |-> body]
By(kind, body) == Ask("t1", "m", kind, body)

MCCallers ==
    <<By("anthropic", Plain), Ask("t2", "m", "gemini", Plain), Ask("t1", "alias", "openai", Plain),
      By("openai", [Plain EXCEPT !.stream = TRUE, !.user = "u"]),
      By("anthropic", [Plain EXCEPT !.max_tokens = None, !.max_completion_tokens = 2]),
      By("openai", [Plain EXCEPT !.messages = <<System, Msg("user", Bare(Hit))>>,
                                 !.max_completion_tokens = 2]),
      By("gemini", [Plain EXCEPT !.messages = <<>>, !.max_tokens = None]),
      By("openai", [Plain EXCEPT !.messages = <<Msg("user", WithImage(Hi))>>, !.tools = "empty",
                                 !.temperature = None, !.n = 2]),
      By("openai", [Plain EXCEPT !.readable = FALSE])>>

\* Three hundredths for every letter that only one of the two has.
MCCosine(u, v) ==
    LET s == ToSet(u) t == ToSet(v)
    IN  100 - 3 * Cardinality((s \ t) \cup (t \ s))
=============================================================================
