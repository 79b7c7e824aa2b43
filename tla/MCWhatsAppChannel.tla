--------------------------- MODULE MCWhatsAppChannel ---------------------------
EXTENDS WhatsAppChannel, TLC
Symmetric == Permutations(Senders) \union Permutations(Writers)
                 \union Permutations(Messages) \union Permutations(Handlers)
================================================================================
