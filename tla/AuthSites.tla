----------------------------- MODULE AuthSites -----------------------------
(***************************************************************************)
(* The authentication providers with prompts (auth.rs): an AuthProvider     *)
(* keeps the prompt, and an AuthBaton keeps its providers.                  *)
(***************************************************************************)
EXTENDS CallSteps

-----------------------------------------------------------------------------
(***************************************************************************)
(* A reference to a closure is cast to the baton; the trampolines read a    *)
(* fat pointer there, and AuthProvider has no lifetime.                     *)
(***************************************************************************)
get_ssl_server_trust_prompt_provider == << Bare("prompt"), Tell, Untied >>
get_ssl_client_cert_prompt_provider  == << Bare("prompt"), Tell, Untied >>
get_ssl_client_cert_pw_file_provider == << Bare("prompt"), Tell, Untied >>
get_simple_prompt_provider           == << Bare("prompt"), Tell, Untied >>
get_username_prompt_provider         ==
  << Bare("prompt"), Inner("credentials", "arg"), Tell, Untied >>
get_simple_provider                  == << Bare("prompt"), Tell, Untied >>

-----------------------------------------------------------------------------
(***************************************************************************)
(* A Box<dyn Fn> is boxed again, and the provider has its dropper.          *)
(***************************************************************************)
get_ssl_server_trust_prompt_provider_boxed ==
  << Box("prompt", "own"), Tell, Own("prompt", "own"), Tied >>
get_ssl_client_cert_prompt_provider_boxed ==
  << Box("prompt", "own"), Tell, Own("prompt", "own"), Tied >>
get_ssl_client_cert_pw_prompt_provider_boxed ==
  << Box("prompt", "own"), Tell, Own("prompt", "own"), Tied >>
get_simple_prompt_provider_boxed ==
  << Box("prompt", "own"), Tell, Own("prompt", "own"), Tied >>
get_username_prompt_provider_boxed ==
  << Box("prompt", "own"), Tell, Own("prompt", "own"), Tied >>

\* The Box<dyn Fn> is turned into a pointer without the second box, and no dropper
\* is attached.
get_ssl_client_cert_pw_file_provider_boxed == << Box("prompt", "raw"), Tell, Untied >>
get_simple_provider_boxed                  == << Box("prompt", "raw"), Tell, Untied >>

-----------------------------------------------------------------------------
Functions ==
  [ get_ssl_server_trust_prompt_provider |-> get_ssl_server_trust_prompt_provider,
    get_ssl_client_cert_prompt_provider |-> get_ssl_client_cert_prompt_provider,
    get_ssl_client_cert_pw_file_provider |-> get_ssl_client_cert_pw_file_provider,
    get_simple_prompt_provider |-> get_simple_prompt_provider,
    get_username_prompt_provider |-> get_username_prompt_provider,
    get_simple_provider |-> get_simple_provider,
    get_ssl_server_trust_prompt_provider_boxed |-> get_ssl_server_trust_prompt_provider_boxed,
    get_ssl_client_cert_prompt_provider_boxed |-> get_ssl_client_cert_prompt_provider_boxed,
    get_ssl_client_cert_pw_prompt_provider_boxed |-> get_ssl_client_cert_pw_prompt_provider_boxed,
    get_simple_prompt_provider_boxed |-> get_simple_prompt_provider_boxed,
    get_username_prompt_provider_boxed |-> get_username_prompt_provider_boxed,
    get_ssl_client_cert_pw_file_provider_boxed |-> get_ssl_client_cert_pw_file_provider_boxed,
    get_simple_provider_boxed |-> get_simple_provider_boxed ]
=============================================================================
