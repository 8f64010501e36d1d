--------------------------- MODULE MCWorkerCatalog ---------------------------
(***************************************************************************)
(* Small instance of WorkerCatalog: four descriptors over two providers and*)
(* two models, of which one lacks a capability, and every policy that can  *)
(* be built from one- or two-entry lists and optional preferences.         *)
(***************************************************************************)
EXTENDS WorkerCatalog

MCTransport == {"http-poller", "libp2p"}

Descr(p, m, caps) == [provider |-> p, model |-> m, capabilities |-> caps]

MCDescriptor ==
  { Descr("mock", "local-sandbox", {"text"}),
    Descr("mock", "local-sandbox", {"text", "json"}),
    Descr("mock", "ui-audit-runner", {"text", "json"}),
    Descr("openai", "gpt-5.4-mini", {"text", "json"}) }

MCLlm ==
  [ providerAllowlist    : {{}, {"mock"}, {"openai"}},
    modelAllowlist       : {{}, {"local-sandbox"}},
    requiredCapabilities : {{}, {"text", "json"}},
    preferredProvider    : {"mock", "openai", Undefined},
    preferredModel       : {"ui-audit-runner", Undefined} ]

MCPolicy == [transport : MCTransport, llm : MCLlm \cup {Undefined}]

=============================================================================
