----------------------- MODULE MCTemplatePublication -----------------------
\* Two operators, two versions of one product, two definitions.
EXTENDS TemplatePublication
CONSTANTS s1, s2, v1, v2

=============================================================================
